---- MODULE Spec2Model ----
(***************************************************************************)
(* Model of worker/jupiter_trader.py (SolanaTrader: the Trade Processor    *)
(* loop and the Position Monitor loop) together with the part of           *)
(* worker/discord_telegram_relay.py (APIClient) those loops call.          *)
(*                                                                         *)
(* Numbers.  Prices are whole numbers of price ticks.  The percentages the *)
(* monitor computes (pnl_pct, drop_from_high) are kept as exact fractions  *)
(* [n, d] with d > 0 and compared by cross-multiplication, so a boundary   *)
(* such as pnl_pct = stop_loss_pct is decided exactly.                     *)
(*                                                                         *)
(* JSON values.  A field of a backend row is a record [t, v]: t is one of  *)
(* "absent" (the key is not in the row), "null", "true", "false", "num",   *)
(* "str"; v is the number of a "num" and 0 otherwise.                      *)
(***************************************************************************)
EXTENDS Integers, Sequences, FiniteSets, TLC

VARIABLES
    running,      \* SolanaTrader.running
    trades,       \* backend: the monitored trade rows, by trade id
    positions,    \* monitor: positions fetched this cycle and not yet evaluated
    mon_pc,       \* monitor: "fetch" | "loop" | "backoff" | "done"
    lastEval,     \* monitor: what the evaluation of a position read and did, until the cycle ends
    reported,     \* history: highest_price of the last update_position_price call, by trade id
    buys,         \* backend: the buy-trade rows, by trade id
    sells,        \* backend: the sell-request rows, by sell id
    proc_pc,      \* processor: "trades" | "buy_loop" | "sell_loop" | "backoff" | "done",
                  \*   and inside a swap "quoted" | "built" | "sent"
    queue,        \* processor: items fetched this cycle and not yet handled
    lastProc,     \* processor: what the handling of an item did, until the cycle ends
    buy_txs,      \* history: transactions submitted to the chain, by buy-trade id
    sell_txs,     \* history: transactions submitted to the chain, by sell id
    buy_reports,  \* history: outcomes reported to the backend, by buy-trade id
    sell_reports, \* history: outcomes reported to the backend, by sell id
    rpc,          \* SolanaTrader.rpc: "none" | "set" | "closed"
    lastCall,     \* the operation of the trader called last: its inputs, its result, its trace
    http,         \* SolanaTrader.http: "open" | "closing" (stop() awaits aclose) | "closed" (stop() is over)
    in_flight,    \* processor: the swaps between their build request and the end of their confirmation
    requested     \* history: the auto-sell requests sent for each trade, as <<reason, status>>

monVars == <<trades, positions, mon_pc, lastEval, reported>>

procVars == <<buys, sells, proc_pc, queue, lastProc, buy_txs, sell_txs, buy_reports, sell_reports>>

opVars == <<rpc, lastCall>>

lifeVars == <<http, in_flight, requested>>

vars == <<running, trades, positions, mon_pc, lastEval, reported,
          buys, sells, proc_pc, queue, lastProc, buy_txs, sell_txs, buy_reports, sell_reports,
          rpc, lastCall,
         http, in_flight, requested>>

----------------------------------------------------------------------------
(* JSON values and Python's treatment of them *)

Absent == [t |-> "absent", v |-> 0]

Null == [t |-> "null", v |-> 0]

Num(n) == [t |-> "num", v |-> n]

Bool(b) == [t |-> IF b THEN "true" ELSE "false", v |-> 0]

Str == [t |-> "str", v |-> 0]

\* a string of decimal digits, as the aggregator writes amounts ("1000"): v is its value
NumStr(n) == [t |-> "numstr", v |-> n]

\* dict.get(key, default): the default only when the key is absent
Get(x, default) == IF x.t = "absent" THEN default ELSE x

\* dict.get(key): None when the key is absent
GetOrNone(x) == Get(x, Null)

\* Python truthiness of None, bool, number, non-empty string ("0" included)
Truthy(x) == x.t = "true" \/ x.t = "str" \/ x.t = "numstr" \/ (x.t = "num" /\ x.v # 0)

IsNone(x) == x.t = "null"

IsNum(x) == x.t = "num"

\* exact fractions n/d, d > 0
Frac(n, d) == [n |-> n, d |-> d]

FracLE(a, b) == a.n * b.d <= b.n * a.d

FracLT(a, b) == a.n * b.d < b.n * a.d

FracGE(a, b) == FracLE(b, a)

FracGT(a, b) == FracLT(b, a)

----------------------------------------------------------------------------
(* Channel Policy Resolver *)

Upper == <<"A","B","C","D","E","F","G","H","I","J","K","L","M",
           "N","O","P","Q","R","S","T","U","V","W","X","Y","Z">>

Lower == <<"a","b","c","d","e","f","g","h","i","j","k","l","m",
           "n","o","p","q","r","s","t","u","v","w","x","y","z">>

\* str.lower() on one character
LowerChar(c) ==
    IF \E i \in 1..Len(Upper) : Upper[i] = c
    THEN Lower[CHOOSE i \in 1..Len(Upper) : Upper[i] = c]
    ELSE c

\* str.lower()
lower(s) == [i \in 1..Len(s) |-> LowerChar(s[i])]

\* `pattern in s` on strings
Contains(pattern, s) ==
    \E i \in 0..(Len(s) - Len(pattern)) : SubSeq(s, i + 1, i + Len(pattern)) = pattern

MemecoinAlpha == <<"m","e","m","e","c","o","i","n","-","a","l","p","h","a">>

MemecoinChat == <<"m","e","m","e","c","o","i","n","-","c","h","a","t">>

Under100k == <<"u","n","d","e","r","-","1","0","0","k">>

\* the table, in declaration order
CHANNEL_CONFIGS ==
    << [pattern |-> MemecoinAlpha,
        stop_loss_pct |-> -25, take_profit_1_pct |-> 100, take_profit_2_pct |-> 200,
        trailing_stop_enabled |-> TRUE, trailing_stop_pct |-> 15,
        time_based_sell_enabled |-> FALSE],
       [pattern |-> MemecoinChat,
        stop_loss_pct |-> -15, take_profit_1_pct |-> 50, take_profit_2_pct |-> 100,
        trailing_stop_enabled |-> TRUE, trailing_stop_pct |-> 10,
        time_based_sell_enabled |-> TRUE],
       [pattern |-> Under100k,
        stop_loss_pct |-> -20, take_profit_1_pct |-> 75, take_profit_2_pct |-> 150,
        trailing_stop_enabled |-> TRUE, trailing_stop_pct |-> 12,
        time_based_sell_enabled |-> TRUE] >>

\* ChannelConfig(): the dataclass defaults
ChannelConfig ==
    [pattern |-> <<>>,
     stop_loss_pct |-> -30, take_profit_1_pct |-> 100, take_profit_2_pct |-> 200,
     trailing_stop_enabled |-> FALSE, trailing_stop_pct |-> 15,
     time_based_sell_enabled |-> FALSE]

\* the characters of the channel names the model uses (TLC does not index a string)
Chars(name) ==
    CASE name = "Memecoin-Alpha" -> <<"M","e","m","e","c","o","i","n","-","A","l","p","h","a">>
      [] name = "x-MEMECOIN-CHAT" -> <<"x","-","M","E","M","E","C","O","I","N","-","C","H","A","T">>
      [] name = "under-100k-gems" -> <<"u","n","d","e","r","-","1","0","0","k","-","g","e","m","s">>
      [] name = "memecoin-chat-of-memecoin-alpha" ->
            <<"m","e","m","e","c","o","i","n","-","c","h","a","t","-","o","f","-",
              "m","e","m","e","c","o","i","n","-","a","l","p","h","a">>
      [] name = "general" -> <<"g","e","n","e","r","a","l">>
      [] OTHER -> <<>>

\* (mutant) the last matching entry of the table wins
get_channel_config_last_match(channel_name) ==
    LET channel_lower == lower(Chars(channel_name))
        hits == {i \in 1..Len(CHANNEL_CONFIGS) : Contains(CHANNEL_CONFIGS[i].pattern, channel_lower)}
    IN  IF hits # {}
        THEN CHANNEL_CONFIGS[CHOOSE i \in hits : \A j \in hits : i >= j]
        ELSE ChannelConfig

\* for pattern, config in CHANNEL_CONFIGS.items(): if pattern in channel_lower:
\* return ChannelConfig(**config); return ChannelConfig()
get_channel_config(channel_name) ==
    LET channel_lower == lower(Chars(channel_name))
        hits == {i \in 1..Len(CHANNEL_CONFIGS) : Contains(CHANNEL_CONFIGS[i].pattern, channel_lower)}
    IN  IF hits # {}
        THEN CHANNEL_CONFIGS[CHOOSE i \in hits : \A j \in hits : i <= j]
        ELSE ChannelConfig

\* the channel names of the model
AllChannelNames ==
    {"Memecoin-Alpha", "x-MEMECOIN-CHAT", "under-100k-gems",
     "memecoin-chat-of-memecoin-alpha", "general"}

\* get_channel_config is pure: its value on each name, computed once
config_of == [name \in AllChannelNames |-> get_channel_config(name)]

----------------------------------------------------------------------------
(* Position Monitor: the evaluation of one position *)

\* the bounds of the model
MaxNow == 1

\* prices (ticks) the price index or the fallback quote can yield; 0 is the
\* answer float(price_data.get("price", 0)) gives for an entry without a price
Prices == {0, 17, 36, 40, 60}

\* held-token balances, in whole tokens (1 token = 1_000_000 base units)
Balances == {1, 2}

NoAction == "none"

pnl_pct(current_price, entry_price) ==
    IF entry_price > 0
    THEN Frac((current_price - entry_price) * 100, entry_price)
    ELSE Frac(0, 1)

\* (mutant) the running highest replaced by the latest price
new_highest_latest(highest_price, current_price) == Num(current_price)

\* new_highest = highest_price; if highest_price is None or current_price > highest_price: ...
new_highest_of(highest_price, current_price) ==
    IF IsNone(highest_price) \/ current_price > highest_price.v
    THEN Num(current_price)
    ELSE highest_price

\* pnl_pct <= stop_loss_pct
stop_loss_hit(pnl, stop_loss_pct) == FracLE(pnl, Frac(stop_loss_pct, 1))

\* trailing_stop_enabled and new_highest and pnl_pct > 0
trailing_guard(trailing_stop_enabled, new_highest, pnl) ==
    Truthy(trailing_stop_enabled) /\ Truthy(new_highest) /\ FracGT(pnl, Frac(0, 1))

\* trailing_pct = trailing_stop_pct or config.trailing_stop_pct
trailing_pct_of(trailing_stop_pct, config) ==
    IF Truthy(trailing_stop_pct) THEN trailing_stop_pct.v ELSE config.trailing_stop_pct

drop_from_high(new_highest, current_price) ==
    IF new_highest > 0
    THEN Frac((new_highest - current_price) * 100, new_highest)
    ELSE Frac(0, 1)

\* (mutant) the boundary drop_from_high = trailing_pct does not trigger
trailing_hit_strict(drop, trailing_pct) == FracGT(drop, Frac(trailing_pct, 1))

\* drop_from_high >= trailing_pct
trailing_hit(drop, trailing_pct) == FracGE(drop, Frac(trailing_pct, 1))

\* pnl_pct >= tp1_pct
take_profit_1_hit(pnl, tp1_pct) == FracGE(pnl, Frac(tp1_pct, 1))

\* pnl_pct >= tp2_pct
take_profit_2_hit(pnl, tp2_pct) == FracGE(pnl, Frac(tp2_pct, 1))

\* datetime.now(timezone.utc) >= datetime.fromisoformat(time_based_sell_at...);
\* a string that does not parse raises inside the try and is swallowed
time_based_due(time_based_sell_at, now) ==
    IsNum(time_based_sell_at) /\ now >= time_based_sell_at.v

Fired(action, pct) == [raised |-> FALSE, action_needed |-> action, sell_percentage |-> pct]

Raised == [raised |-> TRUE, action_needed |-> NoAction, sell_percentage |-> 100]

\* (mutant) TP1 sells everything
take_profit_1_action_all == Fired("take_profit_1", 100)

\* action_needed = 'take_profit_1'; sell_percentage = 50
take_profit_1_action == Fired("take_profit_1", 50)

\* (mutant) the chain with the take-profit checks ahead of the trailing stop
trigger_chain_tp_first(pos, config, pnl, current_price, new_highest) ==
    LET trailing_stop_enabled == Get(pos.trailing_stop_enabled, Bool(FALSE))
        trailing_stop_pct == Get(pos.trailing_stop_pct, Num(15))
        stop_loss_pct == Get(pos.stop_loss_pct, Num(config.stop_loss_pct))
        tp1_pct == Get(pos.take_profit_1_pct, Num(config.take_profit_1_pct))
    IN  IF ~IsNum(stop_loss_pct) THEN Raised
        ELSE IF stop_loss_hit(pnl, stop_loss_pct.v) THEN Fired("stop_loss", 100)
        ELSE IF pos.status = "bought" /\ IsNum(tp1_pct) /\ take_profit_1_hit(pnl, tp1_pct.v)
        THEN take_profit_1_action
        ELSE IF trailing_guard(trailing_stop_enabled, new_highest, pnl)
                /\ trailing_hit(drop_from_high(new_highest.v, current_price),
                                trailing_pct_of(trailing_stop_pct, config))
        THEN Fired("trailing_stop", 100)
        ELSE Fired(NoAction, 100)

\* the if / elif chain of triggers 1-4; a comparison of a float with None raises TypeError
trigger_chain(pos, config, pnl, current_price, new_highest) ==
    LET trailing_stop_enabled == Get(pos.trailing_stop_enabled, Bool(FALSE))
        trailing_stop_pct == Get(pos.trailing_stop_pct, Num(15))
        stop_loss_pct == Get(pos.stop_loss_pct, Num(config.stop_loss_pct))
        tp1_pct == Get(pos.take_profit_1_pct, Num(config.take_profit_1_pct))
        tp2_pct == Get(pos.take_profit_2_pct, Num(config.take_profit_2_pct))
    IN  IF ~IsNum(stop_loss_pct) THEN Raised
        ELSE IF stop_loss_hit(pnl, stop_loss_pct.v) THEN Fired("stop_loss", 100)
        ELSE IF trailing_guard(trailing_stop_enabled, new_highest, pnl)
        THEN IF trailing_hit(drop_from_high(new_highest.v, current_price),
                             trailing_pct_of(trailing_stop_pct, config))
             THEN Fired("trailing_stop", 100)
             ELSE Fired(NoAction, 100)
        ELSE IF pos.status = "bought"
        THEN IF ~IsNum(tp1_pct) THEN Raised
             ELSE IF take_profit_1_hit(pnl, tp1_pct.v) THEN take_profit_1_action
             ELSE Fired(NoAction, 100)
        ELSE IF pos.status = "partial_tp1"
        THEN IF ~IsNum(tp2_pct) THEN Raised
             ELSE IF take_profit_2_hit(pnl, tp2_pct.v) THEN Fired("take_profit_2", 100)
             ELSE Fired(NoAction, 100)
        ELSE Fired(NoAction, 100)

\* (mutant) the time-based check made whatever fired before
time_based_check_unguarded(chain, time_based_sell_at, now) ==
    IF Truthy(time_based_sell_at) /\ time_based_due(time_based_sell_at, now)
    THEN Fired("time_based", 100)
    ELSE chain

\* 5. the time-based check, made only when nothing fired
time_based_check(chain, time_based_sell_at, now) ==
    IF chain.action_needed = NoAction /\ Truthy(time_based_sell_at)
       /\ time_based_due(time_based_sell_at, now)
    THEN Fired("time_based", 100)
    ELSE chain

\* the API calls of one evaluation: the price update, then the auto-sell if one is needed
api_calls(trade_id, current_price, new_highest, decision) ==
    <<[op |-> "update_position_price", trade_id |-> trade_id,
       current_price |-> current_price, highest_price |-> new_highest,
       percentage |-> 0, reason |-> NoAction]>>
    \o (IF decision.action_needed # NoAction
        THEN <<[op |-> "trigger_auto_sell", trade_id |-> trade_id,
                current_price |-> current_price, highest_price |-> new_highest,
                percentage |-> decision.sell_percentage, reason |-> decision.action_needed]>>
        ELSE <<>>)

\* current_value / (token_balance / 1_000_000), current_value = outAmount / 1e9:
\* ticks of 1e-9 SOL per token; the quotes drawn make the quotient whole
fallback_price(outAmount, token_balance) == outAmount \div token_balance

\* an outside call; amount: the amount a quote is asked for, 0 for the other calls
Ev(op, amount) == [op |-> op, amount |-> amount]

\* nothing asked of the outside world
NoAnswers == [price |-> Null, balance |-> Null, quote |-> Null]

NoEval ==
    [outcome |-> "none", pos |-> Null, current_price |-> Null, now |-> 0,
     pnl |-> Frac(0, 1), new_highest |-> Null, action_needed |-> NoAction,
     sell_percentage |-> 100, calls |-> <<>>, answers |-> NoAnswers, events |-> <<>>]

\* (mutant) auto_sell_enabled is not looked at
skip_position_ignoring_switch(contract_address, entry_price, auto_sell_enabled) ==
    ~Truthy(contract_address) \/ ~Truthy(entry_price)

\* if not contract_address or not entry_price: continue
\* if not auto_sell_enabled: continue
skip_position(contract_address, entry_price, auto_sell_enabled) ==
    \/ ~Truthy(contract_address) \/ ~Truthy(entry_price)
    \/ ~Truthy(auto_sell_enabled)

\* the price of the price index, else the price derived from a quote for the whole
\* balance, else None
current_price_of(price, balance, quote) ==
    IF ~IsNone(price) THEN price
    ELSE IF Truthy(balance) /\ balance.v > 0 /\ Truthy(quote)
         THEN Num(fallback_price(quote.v, balance.v))
         ELSE Null

\* (mutant) the monitor sells by itself what it holds
price_events_selling(price, balance) ==
    <<Ev("get_token_price_sol", 0), Ev("get_token_balance", 0),
      Ev("swap_request", 0), Ev("send_raw_transaction", 0)>>

\* the outside calls an evaluation makes to learn the price
price_events(price, balance) ==
    <<Ev("get_token_price_sol", 0)>>
    \o (IF ~IsNone(price) THEN <<>>
        ELSE IF balance.t = "raise" THEN <<Ev("connect_rpc", 0)>>
        ELSE IF Truthy(balance) /\ balance.v > 0
        THEN <<Ev("get_token_balance", 0), Ev("get_quote", balance.v)>>
        ELSE <<Ev("get_token_balance", 0)>>)

\* the body of `for pos in positions` for one position.
\* price: the answer of get_token_price_sol (Null: none); balance: the answer of
\* get_token_balance ([t |-> "raise"]: connect_rpc raised); quote: get_quote's outAmount
evaluate(pos, price, balance, quote, now) ==
    LET contract_address == GetOrNone(pos.contract_address)
        entry_price == GetOrNone(pos.entry_price)
        highest_price == GetOrNone(pos.highest_price)
        auto_sell_enabled == Get(pos.auto_sell_enabled, Bool(TRUE))
        time_based_sell_at == GetOrNone(pos.time_based_sell_at)
        seen == [NoEval EXCEPT !.pos = pos, !.now = now]
        asked == [seen EXCEPT !.answers = [price |-> price, balance |-> balance, quote |-> quote],
                              !.events = price_events(price, balance)]
    IN  IF skip_position(contract_address, entry_price, auto_sell_enabled)
        THEN [seen EXCEPT !.outcome = "skipped"]
        ELSE IF IsNone(price) /\ balance.t = "raise" THEN [asked EXCEPT !.outcome = "raised"]
        ELSE
        LET current_price == current_price_of(price, balance, quote)
        IN  IF IsNone(current_price) THEN [asked EXCEPT !.outcome = "no_price"]
            ELSE
            LET config == config_of[pos.channel_name]
                pnl == pnl_pct(current_price.v, entry_price.v)
                new_highest == new_highest_of(highest_price, current_price.v)
                chain == trigger_chain(pos, config, pnl, current_price.v, new_highest)
                decision == time_based_check(chain, time_based_sell_at, now)
            IN  IF chain.raised
                THEN [asked EXCEPT !.outcome = "raised", !.current_price = current_price,
                                   !.pnl = pnl, !.new_highest = new_highest]
                ELSE [asked EXCEPT !.outcome = "evaluated", !.current_price = current_price,
                                   !.pnl = pnl, !.new_highest = new_highest,
                                   !.action_needed = decision.action_needed,
                                   !.sell_percentage = decision.sell_percentage,
                                   !.calls = api_calls(pos.id, current_price.v, new_highest, decision)]

\* no operation called yet
NoCall == [kind |-> "none"]

\* nothing handled yet in this cycle
NoProc == [kind |-> "none", id |-> 0, outcome |-> "none", success |-> FALSE,
           submitted |-> FALSE, error |-> "", calls |-> <<>>, events |-> <<>>,
           stopped |-> FALSE]

----------------------------------------------------------------------------
(* Position Monitor: the loop *)

\* a row as the backend first hands it out: bought, no highest price observed yet
BaseRow ==
    [id |-> 1, contract_address |-> Str, entry_price |-> Num(20), status |-> "bought",
     channel_name |-> "x-MEMECOIN-CHAT", highest_price |-> Null,
     auto_sell_enabled |-> Bool(TRUE),
     trailing_stop_enabled |-> Bool(TRUE), trailing_stop_pct |-> Null,
     time_based_sell_at |-> Null, stop_loss_pct |-> Absent,
     take_profit_1_pct |-> Absent, take_profit_2_pct |-> Absent]

ChannelNames == {"x-MEMECOIN-CHAT", "general"}

\* rows that vary in the stop-loss, trailing-stop and time-based fields
PolicyRows ==
    { [BaseRow EXCEPT !.channel_name = ch, !.trailing_stop_enabled = tse,
                      !.trailing_stop_pct = tsp, !.time_based_sell_at = at,
                      !.stop_loss_pct = sl] :
        ch \in ChannelNames,
        tse \in {Absent, Null, Bool(TRUE), Bool(FALSE)},
        tsp \in {Absent, Null, Num(50)},
        at \in {Null, Str, Num(1)},
        sl \in {Absent, Null, Num(100)} }

\* rows that vary in the take-profit fields
TakeProfitRows ==
    { [BaseRow EXCEPT !.channel_name = ch, !.trailing_stop_enabled = tse,
                      !.time_based_sell_at = at,
                      !.take_profit_1_pct = tp1, !.take_profit_2_pct = tp2] :
        ch \in ChannelNames,
        tse \in {Bool(TRUE), Bool(FALSE)},
        at \in {Null, Num(1)},
        tp1 \in {Absent, Null, Num(70)},
        tp2 \in {Absent, Null, Num(100)} }

\* rows that vary in the fields the monitor skips a position for
SkipRows ==
    { [BaseRow EXCEPT !.contract_address = ca, !.entry_price = ep, !.auto_sell_enabled = ase] :
        ca \in {Absent, Null, Str},
        ep \in {Null, Num(0), Num(-20), Num(20)},
        ase \in {Absent, Null, Bool(TRUE), Bool(FALSE)} }

MonRows == PolicyRows \cup TakeProfitRows \cup SkipRows

\* api.get_open_positions(): the rows the backend holds as open, or [] when the call fails
OpenPositions == SelectSeq(trades, LAMBDA row : row.status \in {"bought", "partial_tp1"})

\* a table of two open positions, the first one with a null stop_loss_pct
TwoRowTables ==
    { <<[BaseRow EXCEPT !.stop_loss_pct = Null], [BaseRow EXCEPT !.id = 2]>> }

MonInit ==
    /\ running = TRUE
    /\ trades \in {<<row>> : row \in MonRows} \cup TwoRowTables
    /\ positions = <<>>
    /\ mon_pc = "fetch"
    /\ lastEval = NoEval
    /\ reported = [i \in DOMAIN trades |-> Null]
    /\ buys = <<>> /\ sells = <<>>
    /\ proc_pc = "trades" /\ queue = <<>> /\ lastProc = NoProc
    /\ buy_txs = <<>> /\ sell_txs = <<>>
    /\ buy_reports = <<>> /\ sell_reports = <<>>
    /\ rpc = "none" /\ lastCall = NoCall
    /\ http = "open" /\ in_flight = {}
    /\ requested = [i \in DOMAIN trades |-> {}]

\* (mutant) while True: the loop never looks at the flag
loop_continues_forever(flag) == TRUE

\* while self.running
loop_continues(flag) == flag

\* (mutant) the exception handler of a loop leaves the loop
after_backoff_leave(start) == "done"

\* except Exception: await asyncio.sleep(...), and the while statement is reached again
after_backoff(start) == start

\* while self.running: positions = await self.api.get_open_positions()
MonitorFetch ==
    /\ mon_pc = "fetch"
    /\ loop_continues(running)
    /\ \E fetched \in {OpenPositions, <<>>} : positions' = fetched
    /\ mon_pc' = "loop"
    /\ UNCHANGED <<running, trades, lastEval, reported>>
    /\ UNCHANGED procVars
    /\ UNCHANGED opVars
    /\ UNCHANGED lifeVars

\* the answers the outside world can give to one evaluation
\* an answer of the price index: the request fails, the answer has no entry for
\* the mint, or it has an entry, with or without a price
PriceResponse(t, price) == [t |-> t, price |-> price]

PriceResponses ==
    {PriceResponse("error", Absent), PriceResponse("no_entry", Absent),
     PriceResponse("entry", Absent), PriceResponse("entry", Null),
     PriceResponse("entry", NumStr(17))}
    \cup {PriceResponse("entry", Num(p)) : p \in Prices}

\* price_data = data.get("data", {}).get(mint_address)
\* if price_data: return float(price_data.get("price", 0)); return None
\* float(None) raises, and every exception gives None
get_token_price_sol(response) ==
    IF response.t # "entry" THEN Null
    ELSE LET price == Get(response.price, Num(0))
         IN  IF price.t \in {"num", "numstr"} THEN Num(price.v) ELSE Null

PriceAnswers == {get_token_price_sol(response) : response \in PriceResponses}

FallbackAnswers ==
    {[balance |-> b, quote |-> Null] : b \in {[t |-> "raise", v |-> 0], Null, Num(0), Num(1)}}
    \cup {[balance |-> Num(b), quote |-> Num(p * b)] : b \in Balances, p \in Prices}

NoFallback == [balance |-> Null, quote |-> Null]

\* the backend after update_position_price(trade_id, current_price, None, highest_price):
\* it stores the highest price when the request arrives
store_price(rows, call, arrived) ==
    IF arrived /\ ~IsNone(call.highest_price)
    THEN [rows EXCEPT ![call.trade_id].highest_price = call.highest_price]
    ELSE rows

\* the clock readings that matter to a position: the evaluation reads the clock
\* only for a time_based_sell_at that parses
Clock(pos) == IF IsNum(pos.time_based_sell_at) THEN 0..MaxNow ELSE {0}

\* the auto-sell requests sent so far, with the one of the evaluation `ev`: its
\* trigger and the status the backend holds for the trade
note_requests(sent, ev, rows) ==
    IF ev.outcome = "evaluated" /\ ev.action_needed # NoAction
    THEN [sent EXCEPT ![ev.pos.id] = @ \cup {<<ev.action_needed, rows[ev.pos.id].status>>}]
    ELSE sent

\* one pass of the body of `for pos in positions`
\* keep: whether the history of the auto-sell requests is kept
MonitorEvalOn(prices, fallbacks, keep) ==
    /\ mon_pc = "loop"
    /\ positions # <<>>
    /\ \E price \in prices, arrived \in BOOLEAN :
       \E fb \in (IF IsNone(price) THEN fallbacks ELSE {NoFallback}) :
       \E now \in Clock(Head(positions)) :
          LET pos == Head(positions)
              ev == evaluate(pos, price, fb.balance, fb.quote, now)
          IN  /\ lastEval' = ev
              /\ IF ev.outcome = "raised"
                 THEN mon_pc' = "backoff" /\ positions' = <<>>
                 ELSE mon_pc' = "loop" /\ positions' = Tail(positions)
              /\ IF ev.outcome = "evaluated"
                 THEN /\ trades' = store_price(trades, ev.calls[1], arrived)
                      /\ reported' = [reported EXCEPT ![pos.id] = ev.calls[1].highest_price]
                 ELSE UNCHANGED <<trades, reported>>
              /\ requested' = IF keep THEN note_requests(requested, ev, trades) ELSE requested
    /\ UNCHANGED running
    /\ UNCHANGED procVars
    /\ UNCHANGED opVars
    /\ UNCHANGED <<http, in_flight>>

MonitorEval == MonitorEvalOn(PriceAnswers, FallbackAnswers, FALSE)

\* await asyncio.sleep(POSITION_CHECK_INTERVAL)
MonitorSleep ==
    /\ mon_pc = "loop"
    /\ positions = <<>>
    /\ mon_pc' = "fetch"
    /\ lastEval' = NoEval
    /\ UNCHANGED <<running, trades, positions, reported>>
    /\ UNCHANGED procVars
    /\ UNCHANGED opVars
    /\ UNCHANGED lifeVars

\* except Exception: await asyncio.sleep(30)
MonitorBackoff ==
    /\ mon_pc = "backoff"
    /\ mon_pc' = after_backoff("fetch")
    /\ lastEval' = NoEval
    /\ UNCHANGED <<running, trades, positions, reported>>
    /\ UNCHANGED procVars
    /\ UNCHANGED opVars
    /\ UNCHANGED lifeVars

\* the backend moves a trade to partial_tp1 (the effect of update_partial_tp1)
BackendPartialTp1 ==
    /\ \E i \in DOMAIN trades :
          /\ trades[i].status = "bought"
          /\ trades' = [trades EXCEPT ![i].status = "partial_tp1"]
    /\ UNCHANGED <<running, positions, mon_pc, lastEval, reported>>
    /\ UNCHANGED procVars
    /\ UNCHANGED opVars
    /\ UNCHANGED lifeVars

MonNext ==
    \/ MonitorFetch
    \/ MonitorEval
    \/ MonitorSleep
    \/ MonitorBackoff
    \/ BackendPartialTp1

SpecMon == MonInit /\ [][MonNext]_vars

----------------------------------------------------------------------------
(* Swap Executor and the buy / sell operations.                             *)
(* SOL amounts are whole hundredths of a SOL.                               *)

\* trade.get('allocation_sol', 0.1), in hundredths of a SOL
DefaultAllocation == 10

\* balance < amount_sol + 0.01: the 0.01 SOL left for fees, in hundredths of a SOL
FeeReserve == 1

\* the bound on the outcomes reported for one item, which bounds its handlings
MaxReports == 2

\* a TradeResult, with what the model records about the call that made it:
\* submitted (send_raw_transaction returned a signature), raised (an exception left
\* the operation instead of a result) and events (the outside calls made, in order)
TradeResult(success, submitted, raised, error) ==
    [success |-> success, submitted |-> submitted, raised |-> raised, error |-> error,
     signature |-> Null, expected_output |-> Null, events |-> <<>>]

\* the result of an operation that made the calls `events` and then went on to `result`
After(events, result) == [result EXCEPT !.events = events \o @]

\* what the outside world can answer to one execute_swap after the quote:
\*   api_error       the swap endpoint answers with a status other than 200
\*   no_swap_tx      the answer carries no swapTransaction
\*   sign_error      decoding or signing raises
\*   send_error      send_raw_transaction raises
\*   confirmed       the transaction is sent and confirmed
\*   confirm_timeout the transaction is sent, the confirmation times out
\*   confirm_error   the transaction is sent, confirm_transaction raises another error
SwapAnswers ==
    {"api_error", "no_swap_tx", "sign_error", "send_error",
     "confirmed", "confirm_timeout", "confirm_error"}

\* (mutant) a failure ahead of the submission leaves execute_swap as an exception
before_submission_raising(swap) ==
    CASE swap \in {"api_error", "no_swap_tx"} ->
            After(<<Ev("swap_request", 0)>>, TradeResult(FALSE, FALSE, TRUE, "exception"))
      [] swap = "sign_error" ->
            After(<<Ev("swap_request", 0), Ev("sign", 0)>>,
                  TradeResult(FALSE, FALSE, TRUE, "exception"))
      [] OTHER ->
            After(<<Ev("swap_request", 0), Ev("sign", 0), Ev("send_raw_transaction", 0)>>,
                  TradeResult(FALSE, FALSE, TRUE, "exception"))

\* execute_swap up to send_raw_transaction, when one of these steps fails
before_submission(swap) ==
    CASE swap = "api_error" ->
            After(<<Ev("swap_request", 0)>>,
                  TradeResult(FALSE, FALSE, FALSE, "Jupiter swap API error"))
      [] swap = "no_swap_tx" ->
            After(<<Ev("swap_request", 0)>>,
                  TradeResult(FALSE, FALSE, FALSE, "No swap transaction returned from Jupiter"))
      [] swap = "sign_error" ->
            After(<<Ev("swap_request", 0), Ev("sign", 0)>>,
                  TradeResult(FALSE, FALSE, FALSE, "exception"))
      [] OTHER ->
            After(<<Ev("swap_request", 0), Ev("sign", 0), Ev("send_raw_transaction", 0)>>,
                  TradeResult(FALSE, FALSE, FALSE, "exception"))

\* (mutant) a confirmation timeout turns the result into a failure
confirmation_timeout_fails(quote, swap) ==
    After(<<Ev("confirm_transaction", 0)>>,
          IF swap = "confirmed"
          THEN [TradeResult(TRUE, TRUE, FALSE, "")
                  EXCEPT !.signature = Str, !.expected_output = Num(quote.v)]
          ELSE TradeResult(FALSE, TRUE, FALSE, "exception"))

\* execute_swap once send_raw_transaction has returned the signature: the wait for
\* the confirmation, where only a timeout is caught, and the TradeResult
confirmation(quote, swap) ==
    After(<<Ev("confirm_transaction", 0)>>,
          IF swap \in {"confirmed", "confirm_timeout"}
          THEN [TradeResult(TRUE, TRUE, FALSE, "")
                  EXCEPT !.signature = Str, !.expected_output = Num(quote.v)]
          ELSE TradeResult(FALSE, TRUE, FALSE, "exception"))

execute_swap(quote, swap) ==
    IF swap \in {"api_error", "no_swap_tx", "sign_error", "send_error"}
    THEN before_submission(swap)
    ELSE After(<<Ev("swap_request", 0), Ev("sign", 0), Ev("send_raw_transaction", 0)>>,
               confirmation(quote, swap))

\* execute_swap called with self.rpc as it is: it connects first when there is no
\* client; connect_rpc leaves a client behind whether or not an endpoint answered
execute_swap_on(rpc_state, connected, quote, swap) ==
    IF rpc_state = "none"
    THEN IF connected
         THEN After(<<Ev("connect_rpc", 0)>>, execute_swap(quote, swap))
         ELSE After(<<Ev("connect_rpc", 0)>>, TradeResult(FALSE, FALSE, FALSE, "exception"))
    ELSE execute_swap(quote, swap)

\* (mutant) the fee reserve left out of the balance check
insufficient_balance_no_reserve(balance, amount_sol) == balance < amount_sol

\* balance < amount_sol + 0.01
insufficient_balance(balance, amount_sol) == balance < amount_sol + FeeReserve

\* (mutant) a missing quote does not stop the buy
no_quote_never(quote) == FALSE

\* if not quote
no_quote(quote) == ~Truthy(quote)

\* balance: the answer of get_balance ([t |-> "raise"]: it raised); quote: what
\* get_quote returned, as the outAmount of the quote (Null: no quote).  An exception
\* leaves buy_token (raised).  The amount quoted is in hundredths of a SOL
buy_token(amount_sol, balance, quote, swap) ==
    IF ~IsNum(amount_sol) THEN TradeResult(FALSE, FALSE, TRUE, "exception")
    ELSE IF balance.t = "raise"
    THEN After(<<Ev("get_balance", 0)>>, TradeResult(FALSE, FALSE, TRUE, "exception"))
    ELSE IF insufficient_balance(balance.v, amount_sol.v)
    THEN After(<<Ev("get_balance", 0)>>,
               TradeResult(FALSE, FALSE, FALSE, "Insufficient SOL balance"))
    ELSE IF no_quote(quote)
    THEN After(<<Ev("get_balance", 0), Ev("get_quote", amount_sol.v)>>,
               TradeResult(FALSE, FALSE, FALSE, "Failed to get Jupiter quote"))
    ELSE After(<<Ev("get_balance", 0), Ev("get_quote", amount_sol.v)>>,
               execute_swap(quote, swap))

\* (mutant) the amount rounded up
sell_amount_ceil(token_amount, percentage) == (token_amount * percentage + 99) \div 100

\* sell_amount = (token_amount * percentage) // 100
sell_amount_of(token_amount, percentage) == (token_amount * percentage) \div 100

\* (mutant) an unreadable balance is not taken for a missing balance
no_token_balance_zero_only(token_amount) == ~IsNone(token_amount) /\ token_amount.v <= 0

\* token_amount is None or token_amount <= 0
no_token_balance(token_amount) == IsNone(token_amount) \/ token_amount.v <= 0

\* token_amount: the answer of get_token_balance ([t |-> "raise"]: connect_rpc raised)
sell_token(percentage, token_amount, quote, swap) ==
    IF token_amount.t = "raise"
    THEN After(<<Ev("connect_rpc", 0)>>, TradeResult(FALSE, FALSE, TRUE, "exception"))
    ELSE IF no_token_balance(token_amount)
    THEN After(<<Ev("get_token_balance", 0)>>,
               TradeResult(FALSE, FALSE, FALSE, "No token balance found"))
    ELSE IF ~IsNum(percentage)
    THEN After(<<Ev("get_token_balance", 0)>>, TradeResult(FALSE, FALSE, TRUE, "exception"))
    ELSE IF sell_amount_of(token_amount.v, percentage.v) <= 0
    THEN After(<<Ev("get_token_balance", 0)>>,
               TradeResult(FALSE, FALSE, FALSE, "No tokens to sell"))
    ELSE IF no_quote(quote)
    THEN After(<<Ev("get_token_balance", 0),
                 Ev("get_quote", sell_amount_of(token_amount.v, percentage.v))>>,
               TradeResult(FALSE, FALSE, FALSE, "Failed to get Jupiter quote for sell"))
    ELSE After(<<Ev("get_token_balance", 0),
                 Ev("get_quote", sell_amount_of(token_amount.v, percentage.v))>>,
               execute_swap(quote, swap))

----------------------------------------------------------------------------
(* Quote Service *)

\* get_quote(..., retries: int = 3)
DefaultRetries == 3

\* the answers of the quote endpoint to one request:
\*   no_route     status 400 whose error names a missing route
\*   bad_request  status 400 with another error: raise_for_status raises
\*   error        a network error or another error status: an exception
\*   ok           status 200; outAmount is the field of the body (Absent also for
\*                an empty body)
QuoteResponse(kind, outAmount) == [kind |-> kind, outAmount |-> outAmount]

QuoteFailures ==
    {QuoteResponse(k, Absent) : k \in {"no_route", "bad_request", "error"}}

QuoteResponses ==
    QuoteFailures
    \cup {QuoteResponse("ok", a) :
            a \in {Absent, Null, Num(0), NumStr(0), Num(1000), NumStr(1000)}}

Attempt(returns, quote, events) == [returns |-> returns, quote |-> quote, events |-> events]

\* (mutant) a missing route is retried like a transient error
quote_attempt_retry_no_route(response, amount, attempt, retries) ==
    IF response.kind = "ok" /\ Truthy(response.outAmount)
    THEN Attempt(TRUE, response.outAmount, <<Ev("quote_request", amount)>>)
    ELSE IF response.kind = "ok"
    THEN Attempt(FALSE, Null, <<Ev("quote_request", amount)>>)
    ELSE Attempt(FALSE, Null,
                 <<Ev("quote_request", amount)>>
                 \o (IF attempt < retries - 1 THEN <<Ev("sleep", 1)>> ELSE <<>>))

\* the body of `for attempt in range(retries)`: one request and what follows it.
\* A quote is given as its outAmount
quote_attempt(response, amount, attempt, retries) ==
    IF response.kind = "no_route"
    THEN Attempt(TRUE, Null, <<Ev("quote_request", amount)>>)
    ELSE IF response.kind = "ok" /\ Truthy(response.outAmount)
    THEN Attempt(TRUE, response.outAmount, <<Ev("quote_request", amount)>>)
    ELSE IF response.kind = "ok"
    THEN Attempt(FALSE, Null, <<Ev("quote_request", amount)>>)
    ELSE Attempt(FALSE, Null,
                 <<Ev("quote_request", amount)>>
                 \o (IF attempt < retries - 1 THEN <<Ev("sleep", 1)>> ELSE <<>>))

RECURSIVE quote_loop(_, _, _, _, _)

\* the for loop from `attempt` on, `events` being the calls made so far
quote_loop(responses, amount, attempt, retries, events) ==
    IF attempt >= retries
    THEN [quote |-> Null, events |-> events]
    ELSE LET step == quote_attempt(responses[attempt + 1], amount, attempt, retries)
         IN  IF step.returns
             THEN [quote |-> step.quote, events |-> events \o step.events]
             ELSE quote_loop(responses, amount, attempt + 1, retries, events \o step.events)

\* responses[i]: the answer the endpoint gives to the i-th request
get_quote(responses, amount, retries) == quote_loop(responses, amount, 0, retries, <<>>)

----------------------------------------------------------------------------
(* Trade Processor: the loop *)

BuyRow(id, contract_address, allocation_sol) ==
    [id |-> id, contract_address |-> contract_address, allocation_sol |-> allocation_sol,
     status |-> "pending_sigma"]

BuyRows ==
    { BuyRow(1, ca, al) : ca \in {Str, Null}, al \in {Absent, Null, Num(20)} }

\* the joined trade of a sell request: no key, null, or an object with a contract address
NoTradeInfo == [t |-> "absent", contract_address |-> Absent]

NullTradeInfo == [t |-> "null", contract_address |-> Absent]

TradeInfo(contract_address) == [t |-> "obj", contract_address |-> contract_address]

SellRow(id, trade_info, percentage, trade_id) ==
    [id |-> id, trades |-> trade_info, percentage |-> percentage, trade_id |-> trade_id,
     status |-> "pending"]

SellRows ==
    { SellRow(1, ti, pc, Num(1)) :
        ti \in {NoTradeInfo, NullTradeInfo, TradeInfo(Null), TradeInfo(Str)},
        pc \in {Absent, Null, Num(50), Num(100)} }
    \cup { SellRow(1, TradeInfo(Str), Num(50), Null) }

\* the second row of each table: a buy of the default allocation, a full sell
PlainBuy == BuyRow(2, Str, Absent)

PlainSell == SellRow(2, TradeInfo(Str), Num(100), Num(1))

\* the tables the processor starts on: pending buys and no sell request, or
\* pending sell requests and no buy
Tables ==
    { [buys |-> <<row, PlainBuy>>, sells |-> <<>>] : row \in BuyRows }
    \cup { [buys |-> <<>>, sells |-> <<row, PlainSell>>] : row \in SellRows }

\* api.get_pending_sigma_trades(): the rows the backend holds as pending
PendingTrades == SelectSeq(buys, LAMBDA row : row.status = "pending_sigma")

\* api.get_pending_sells(): the rows the backend holds as pending
PendingSells == SelectSeq(sells, LAMBDA row : row.status = "pending")

ProcInit ==
    /\ running = TRUE
    /\ trades = <<BaseRow>>
    /\ positions = <<>>
    /\ mon_pc = "fetch"
    /\ lastEval = NoEval
    /\ reported = [i \in {1} |-> Null]
    /\ \E tables \in Tables : buys = tables.buys /\ sells = tables.sells
    /\ proc_pc = "trades"
    /\ queue = <<>>
    /\ lastProc = NoProc
    /\ buy_txs = [i \in DOMAIN buys |-> 0]
    /\ sell_txs = [i \in DOMAIN sells |-> 0]
    /\ buy_reports = [i \in DOMAIN buys |-> <<>>]
    /\ sell_reports = [i \in DOMAIN sells |-> <<>>]
    /\ rpc = "none"
    /\ lastCall = NoCall
    /\ http = "open" /\ in_flight = {}
    /\ requested = [i \in DOMAIN trades |-> {}]

\* the backend after update_trade_bought / update_trade_failed: the trade leaves
\* pending when the request arrives
store_trade(rows, id, op, arrived) ==
    IF arrived
    THEN [rows EXCEPT ![id].status = IF op = "update_trade_bought" THEN "bought" ELSE "failed"]
    ELSE rows

\* the backend after update_sell_executed / update_sell_failed
store_sell(rows, id, op, arrived) ==
    IF arrived
    THEN [rows EXCEPT ![id].status = IF op = "update_sell_executed" THEN "executed" ELSE "failed"]
    ELSE rows

\* the backend after update_partial_tp1(trade_id)
store_partial_tp1(rows, trade_id, arrived) ==
    IF arrived /\ trade_id \in DOMAIN rows /\ rows[trade_id].status = "bought"
    THEN [rows EXCEPT ![trade_id].status = "partial_tp1"]
    ELSE rows

BalanceAnswers == {[t |-> "raise", v |-> 0], Num(10), Num(11), Num(30)}

TokenAnswers == {[t |-> "raise", v |-> 0], Null, Num(0), Num(1), Num(4)}

QuoteAnswers == {Null, Num(1000)}

Handled(kind, id, outcome, result, calls) ==
    [kind |-> kind, id |-> id, outcome |-> outcome, success |-> result.success,
     submitted |-> result.submitted, error |-> result.error, calls |-> calls,
     events |-> result.events, stopped |-> FALSE]

\* (mutant) every executed sell of a linked trade counts as the TP1 sell
is_tp1_sell_any_percentage(trade_id, percentage) == Truthy(trade_id)

\* if trade_id and percentage == 50
is_tp1_sell(trade_id, percentage) == Truthy(trade_id) /\ percentage = Num(50)

\* while self.running: trades = await self.api.get_pending_sigma_trades()
ProcFetchTrades ==
    /\ proc_pc = "trades"
    /\ loop_continues(running)
    /\ \E fetched \in {PendingTrades, <<>>} : queue' = fetched
    /\ proc_pc' = "buy_loop"
    /\ UNCHANGED <<running, buys, sells, lastProc, buy_txs, sell_txs, buy_reports, sell_reports>>
    /\ UNCHANGED monVars
    /\ UNCHANGED opVars
    /\ UNCHANGED lifeVars

\* one pass of the body of `for trade in trades`
ProcBuyOn(balances, quotes, swaps) ==
    /\ proc_pc = "buy_loop"
    /\ queue # <<>>
    /\ Len(buy_reports[Head(queue).id]) < MaxReports
    /\ \E balance \in balances, quote \in quotes,
          swap \in swaps, arrived \in BOOLEAN :
          LET trade == Head(queue)
              trade_id == trade.id
              contract_address == GetOrNone(trade.contract_address)
              amount_sol == Get(trade.allocation_sol, Num(DefaultAllocation))
              result == buy_token(amount_sol, balance, quote, swap)
              op == IF result.success THEN "update_trade_bought" ELSE "update_trade_failed"
          IN  IF IsNone(contract_address)
              THEN \* contract_address[:8] raises ahead of the inner try
                   /\ proc_pc' = "backoff"
                   /\ queue' = <<>>
                   /\ lastProc' = Handled("buy", trade_id, "raised",
                                          TradeResult(FALSE, FALSE, TRUE, "exception"), <<>>)
                   /\ UNCHANGED <<buys, buy_txs, buy_reports>>
              ELSE /\ proc_pc' = "buy_loop"
                   /\ queue' = Tail(queue)
                   /\ lastProc' = Handled("buy", trade_id, "reported", result, <<op>>)
                   /\ buy_txs' = [buy_txs EXCEPT ![trade_id] = @ + (IF result.submitted THEN 1 ELSE 0)]
                   /\ buy_reports' = [buy_reports EXCEPT ![trade_id] = Append(@, op)]
                   /\ buys' = store_trade(buys, trade_id, op, arrived)
    /\ UNCHANGED <<running, sells, sell_txs, sell_reports>>
    /\ UNCHANGED monVars
    /\ UNCHANGED opVars
    /\ UNCHANGED lifeVars

ProcBuy == ProcBuyOn(BalanceAnswers, QuoteAnswers, SwapAnswers)

\* sells = await self.api.get_pending_sells()
ProcFetchSells ==
    /\ proc_pc = "buy_loop"
    /\ queue = <<>>
    /\ \E fetched \in {PendingSells, <<>>} : queue' = fetched
    /\ proc_pc' = "sell_loop"
    /\ UNCHANGED <<running, buys, sells, lastProc, buy_txs, sell_txs, buy_reports, sell_reports>>
    /\ UNCHANGED monVars
    /\ UNCHANGED opVars
    /\ UNCHANGED lifeVars

\* one pass of the body of `for sell in sells`
ProcSellOn(token_amounts, quotes, swaps) ==
    /\ proc_pc = "sell_loop"
    /\ queue # <<>>
    /\ Len(sell_reports[Head(queue).id]) < MaxReports
    /\ \E token_amount \in token_amounts, quote \in quotes,
          swap \in swaps, arrived \in BOOLEAN, tp1_arrived \in BOOLEAN :
          LET sell == Head(queue)
              sell_id == sell.id
              trade_info == sell.trades
              contract_address ==
                  IF trade_info.t = "absent" THEN Null ELSE GetOrNone(trade_info.contract_address)
              percentage == Get(sell.percentage, Num(100))
              trade_id == GetOrNone(sell.trade_id)
              result == sell_token(percentage, token_amount, quote, swap)
              op == IF result.success THEN "update_sell_executed" ELSE "update_sell_failed"
              tp1 == result.success /\ is_tp1_sell(trade_id, percentage)
          IN  IF trade_info.t = "null"
              THEN \* None.get raises ahead of the inner try
                   /\ proc_pc' = "backoff"
                   /\ queue' = <<>>
                   /\ lastProc' = Handled("sell", sell_id, "raised",
                                          TradeResult(FALSE, FALSE, TRUE, "exception"), <<>>)
                   /\ UNCHANGED <<sells, sell_txs, sell_reports, trades>>
              ELSE IF ~Truthy(contract_address)
              THEN /\ proc_pc' = "sell_loop"
                   /\ queue' = Tail(queue)
                   /\ lastProc' = Handled("sell", sell_id, "reported",
                                          TradeResult(FALSE, FALSE, FALSE, "Missing contract address"),
                                          <<"update_sell_failed">>)
                   /\ sell_reports' = [sell_reports EXCEPT ![sell_id] = Append(@, "update_sell_failed")]
                   /\ sells' = store_sell(sells, sell_id, "update_sell_failed", arrived)
                   /\ UNCHANGED <<sell_txs, trades>>
              ELSE /\ proc_pc' = "sell_loop"
                   /\ queue' = Tail(queue)
                   /\ lastProc' = Handled("sell", sell_id, "reported", result,
                                          IF tp1 THEN <<op, "update_partial_tp1">> ELSE <<op>>)
                   /\ sell_txs' = [sell_txs EXCEPT ![sell_id] = @ + (IF result.submitted THEN 1 ELSE 0)]
                   /\ sell_reports' = [sell_reports EXCEPT ![sell_id] = Append(@, op)]
                   /\ sells' = store_sell(sells, sell_id, op, arrived)
                   /\ trades' = IF tp1 THEN store_partial_tp1(trades, trade_id.v, tp1_arrived)
                                ELSE trades
    /\ UNCHANGED <<running, buys, buy_txs, buy_reports>>
    /\ UNCHANGED <<positions, mon_pc, lastEval, reported>>
    /\ UNCHANGED opVars
    /\ UNCHANGED lifeVars

ProcSell == ProcSellOn(TokenAnswers, QuoteAnswers, SwapAnswers)

\* await asyncio.sleep(3)
ProcSleep ==
    /\ proc_pc = "sell_loop"
    /\ queue = <<>>
    /\ proc_pc' = "trades"
    /\ lastProc' = NoProc
    /\ UNCHANGED <<running, buys, sells, queue, buy_txs, sell_txs, buy_reports, sell_reports>>
    /\ UNCHANGED monVars
    /\ UNCHANGED opVars
    /\ UNCHANGED lifeVars

\* except Exception: await asyncio.sleep(10)
ProcBackoff ==
    /\ proc_pc = "backoff"
    /\ proc_pc' = after_backoff("trades")
    /\ lastProc' = NoProc
    /\ UNCHANGED <<running, buys, sells, queue, buy_txs, sell_txs, buy_reports, sell_reports>>
    /\ UNCHANGED monVars
    /\ UNCHANGED opVars
    /\ UNCHANGED lifeVars

ProcNext ==
    \/ ProcFetchTrades
    \/ ProcBuy
    \/ ProcFetchSells
    \/ ProcSell
    \/ ProcSleep
    \/ ProcBackoff

SpecProc == ProcInit /\ [][ProcNext]_vars

----------------------------------------------------------------------------
(* The operations of the trader, one call at a time *)

\* the answers of the quote endpoint drawn for a buy or a sell
FewQuoteResponses ==
    {QuoteResponse("error", Absent), QuoteResponse("no_route", Absent),
     QuoteResponse("ok", NumStr(0)), QuoteResponse("ok", Num(1000))}

AmountsSol == {Null, Num(10), Num(20)}

Percentages == {Null, Num(0), Num(1), Num(50), Num(100), Num(150)}

TokenBalances == TokenAnswers \cup {Num(3), Num(199)}

Quotes == {Num(1000), NumStr(1000), NumStr(0)}

OpInit ==
    /\ running = TRUE
    /\ trades = <<>>
    /\ positions = <<>>
    /\ mon_pc = "fetch"
    /\ lastEval = NoEval
    /\ reported = <<>>
    /\ buys = <<>> /\ sells = <<>>
    /\ proc_pc = "trades" /\ queue = <<>> /\ lastProc = NoProc
    /\ buy_txs = <<>> /\ sell_txs = <<>>
    /\ buy_reports = <<>> /\ sell_reports = <<>>
    /\ rpc = "none"
    /\ lastCall = NoCall
    /\ http = "open" /\ in_flight = {}
    /\ requested = [i \in DOMAIN trades |-> {}]

\* the RPC endpoints, in list order
RPC_ENDPOINTS ==
    <<"https://api.mainnet-beta.solana.com",
      "https://solana-mainnet.g.alchemy.com/v2/demo",
      "https://rpc.ankr.com/solana">>

\* (mutant) every endpoint is tried and the last one that answers is kept
connect_rpc_try_all(alive) ==
    LET up == {i \in DOMAIN RPC_ENDPOINTS : alive[i]}
        last == Len(RPC_ENDPOINTS)
    IN  IF up = {}
        THEN [raised |-> TRUE, rpc |-> RPC_ENDPOINTS[last], rpc_url |-> RPC_ENDPOINTS[1],
              tried |-> RPC_ENDPOINTS]
        ELSE LET i == CHOOSE i \in up : \A j \in up : i >= j
             IN  [raised |-> FALSE, rpc |-> RPC_ENDPOINTS[i], rpc_url |-> RPC_ENDPOINTS[i],
                  tried |-> RPC_ENDPOINTS]

\* the iteration of `for endpoint in RPC_ENDPOINTS` from endpoint i on
\* tried: the endpoints get_latest_blockhash was called on so far
RECURSIVE connect_loop(_, _, _)
connect_loop(alive, i, tried) ==
    IF i > Len(RPC_ENDPOINTS)
    THEN [raised |-> TRUE, rpc |-> tried[Len(tried)], rpc_url |-> RPC_ENDPOINTS[1],
          tried |-> tried]
    ELSE IF alive[i]
    THEN [raised |-> FALSE, rpc |-> RPC_ENDPOINTS[i], rpc_url |-> RPC_ENDPOINTS[i],
          tried |-> Append(tried, RPC_ENDPOINTS[i])]
    ELSE connect_loop(alive, i + 1, Append(tried, RPC_ENDPOINTS[i]))

\* connect_rpc: self.rpc and self.rpc_url after the call (rpc_url is
\* RPC_ENDPOINTS[0] from the constructor), and whether ConnectionError was raised
connect_rpc(alive) == connect_loop(alive, 1, <<>>)

\* await self.get_quote(input_mint, output_mint, amount, slippage_bps, retries)
CallGetQuote ==
    /\ lastCall = NoCall
    /\ \E retries \in 1..DefaultRetries, responses \in [1..DefaultRetries -> QuoteResponses] :
          LET q == get_quote(responses, 1, retries)
          IN  lastCall' = [kind |-> "get_quote", retries |-> retries, responses |-> responses,
                           quote |-> q.quote, quote_events |-> q.events]
    /\ UNCHANGED rpc
    /\ UNCHANGED monVars
    /\ UNCHANGED procVars
    /\ UNCHANGED running
    /\ UNCHANGED lifeVars

\* await self.execute_swap(quote)
CallExecuteSwap ==
    /\ lastCall = NoCall
    /\ \E quote \in Quotes, connected \in BOOLEAN, swap \in SwapAnswers :
          lastCall' = [kind |-> "execute_swap", rpc |-> rpc, connected |-> connected,
                       quote |-> quote, swap |-> swap,
                       result |-> execute_swap_on(rpc, connected, quote, swap)]
    /\ rpc' = "set"
    /\ UNCHANGED monVars
    /\ UNCHANGED procVars
    /\ UNCHANGED running
    /\ UNCHANGED lifeVars

\* await self.buy_token(contract_address, amount_sol)
CallBuy ==
    /\ lastCall = NoCall
    /\ \E amount_sol \in AmountsSol, balance \in BalanceAnswers,
          responses \in [1..DefaultRetries -> FewQuoteResponses], swap \in SwapAnswers :
          LET q == get_quote(responses, amount_sol.v, DefaultRetries)
              result == buy_token(amount_sol, balance, q.quote, swap)
              quoted == \E i \in DOMAIN result.events : result.events[i].op = "get_quote"
              executed == \E i \in DOMAIN result.events : result.events[i].op = "swap_request"
          IN  /\ lastCall' = [kind |-> "buy", amount_sol |-> amount_sol, balance |-> balance,
                              responses |-> IF quoted THEN responses ELSE <<>>,
                              swap |-> IF executed THEN swap ELSE "none",
                              quote |-> IF quoted THEN q.quote ELSE Null,
                              quote_events |-> IF quoted THEN q.events ELSE <<>>,
                              result |-> result]
              /\ rpc' = IF IsNum(amount_sol) THEN "set" ELSE rpc
    /\ UNCHANGED monVars
    /\ UNCHANGED procVars
    /\ UNCHANGED running
    /\ UNCHANGED lifeVars

\* await self.sell_token(contract_address, percentage, slippage)
CallSell ==
    /\ lastCall = NoCall
    /\ \E percentage \in Percentages, token_amount \in TokenBalances,
          responses \in [1..DefaultRetries -> FewQuoteResponses], swap \in SwapAnswers :
          LET amount == IF IsNum(percentage) /\ IsNum(token_amount)
                        THEN sell_amount_of(token_amount.v, percentage.v) ELSE 0
              q == get_quote(responses, amount, DefaultRetries)
              result == sell_token(percentage, token_amount, q.quote, swap)
              quoted == \E i \in DOMAIN result.events : result.events[i].op = "get_quote"
              executed == \E i \in DOMAIN result.events : result.events[i].op = "swap_request"
          IN  /\ token_amount.t = "raise" => rpc = "none"
              /\ lastCall' = [kind |-> "sell", percentage |-> percentage,
                              token_amount |-> token_amount,
                              responses |-> IF quoted THEN responses ELSE <<>>,
                              swap |-> IF executed THEN swap ELSE "none",
                              quote |-> IF quoted THEN q.quote ELSE Null,
                              quote_events |-> IF quoted THEN q.events ELSE <<>>,
                              result |-> result]
    /\ rpc' = "set"
    /\ UNCHANGED monVars
    /\ UNCHANGED procVars
    /\ UNCHANGED running
    /\ UNCHANGED lifeVars

\* get_channel_config(channel_name)
CallGetChannelConfig ==
    /\ lastCall = NoCall
    /\ \E channel_name \in AllChannelNames :
          lastCall' = [kind |-> "get_channel_config", channel_name |-> channel_name,
                       result |-> get_channel_config(channel_name)]
    /\ UNCHANGED rpc
    /\ UNCHANGED monVars
    /\ UNCHANGED procVars
    /\ UNCHANGED running
    /\ UNCHANGED lifeVars

\* what get_token_accounts_by_owner gives: it raises, the wallet has no account
\* for the mint, or the first account holds `amount` base units
TokenRead(t, amount) == [t |-> t, amount |-> amount]

TokenReads ==
    {TokenRead("error", 0), TokenRead("no_account", 0)}
    \cup {TokenRead("account", a) : a \in {0, 1, 4}}

\* get_token_balance with self.rpc as it is: connect_rpc, called ahead of the
\* try, raises to the caller; inside the try a failed read gives None, no
\* account 0, an account its amount
get_token_balance(rpc_state, connected, read) ==
    IF rpc_state = "none" /\ ~connected THEN [t |-> "raise", v |-> 0]
    ELSE IF read.t = "error" THEN Null
    ELSE IF read.t = "no_account" THEN Num(0)
    ELSE Num(read.amount)

\* await self.get_token_balance(mint_address)
CallGetTokenBalance ==
    /\ lastCall = NoCall
    /\ \E connected \in BOOLEAN, read \in TokenReads :
          lastCall' = [kind |-> "get_token_balance", rpc |-> rpc, connected |-> connected,
                       read |-> read, result |-> get_token_balance(rpc, connected, read)]
    /\ rpc' = "set"
    /\ UNCHANGED monVars
    /\ UNCHANGED procVars
    /\ UNCHANGED running
    /\ UNCHANGED lifeVars

\* await self.get_token_price_sol(mint_address)
CallGetTokenPriceSol ==
    /\ lastCall = NoCall
    /\ \E response \in PriceResponses :
          lastCall' = [kind |-> "get_token_price_sol", response |-> response,
                       result |-> get_token_price_sol(response)]
    /\ UNCHANGED rpc
    /\ UNCHANGED monVars
    /\ UNCHANGED procVars
    /\ UNCHANGED running
    /\ UNCHANGED lifeVars

\* await self.connect_rpc(); alive[i]: the endpoint i answers get_latest_blockhash
CallConnectRpc ==
    /\ lastCall = NoCall
    /\ \E alive \in [DOMAIN RPC_ENDPOINTS -> BOOLEAN] :
          lastCall' = [kind |-> "connect_rpc", alive |-> alive, result |-> connect_rpc(alive)]
    /\ rpc' = "set"
    /\ UNCHANGED monVars
    /\ UNCHANGED procVars
    /\ UNCHANGED running
    /\ UNCHANGED lifeVars

\* the operation has returned to its caller
Return ==
    /\ lastCall # NoCall
    /\ lastCall' = NoCall
    /\ UNCHANGED rpc
    /\ UNCHANGED monVars
    /\ UNCHANGED procVars
    /\ UNCHANGED running
    /\ UNCHANGED lifeVars

OpNext ==
    \/ CallGetQuote
    \/ CallExecuteSwap
    \/ CallBuy
    \/ CallSell
    \/ CallGetChannelConfig
    \/ CallGetTokenPriceSol
    \/ CallGetTokenBalance
    \/ CallConnectRpc
    \/ Return

SpecOp == OpInit /\ [][OpNext]_vars

----------------------------------------------------------------------------
(* Properties of the Position Monitor.                                      *)
(* The trigger conditions are restated here from the values of the row the  *)
(* monitor read, its price and its clock, with their own arithmetic.        *)

\* an evaluation that obtained a price
HasPrice == lastEval.outcome \in {"evaluated", "raised"} /\ IsNum(lastEval.current_price)

\* an evaluation that ran to its API calls
Evaluated == lastEval.outcome = "evaluated"

RowCur == lastEval.current_price.v

RowEntry == lastEval.pos.entry_price.v

RowConfig == config_of[lastEval.pos.channel_name]

\* pnl_pct <= x and pnl_pct >= x, pnl_pct = (current - entry) / entry * 100 (0 without a positive entry)
PnlAtMost(x) == IF RowEntry > 0 THEN (RowCur - RowEntry) * 100 <= x * RowEntry ELSE 0 <= x

PnlAtLeast(x) == IF RowEntry > 0 THEN (RowCur - RowEntry) * 100 >= x * RowEntry ELSE 0 >= x

PnlPositive == RowEntry > 0 /\ RowCur > RowEntry

\* the stored highest price the monitor was given, if any
RowHadHighest == IsNum(lastEval.pos.highest_price)

\* the running highest after this cycle's update
RowHighest ==
    IF RowHadHighest /\ lastEval.pos.highest_price.v >= RowCur
    THEN lastEval.pos.highest_price.v
    ELSE RowCur

\* a policy field as the monitor reads it: the row's value, the channel's when the key is absent
RowRead(field, channelValue) == IF field.t = "absent" THEN Num(channelValue) ELSE field

RowStopLoss == RowRead(lastEval.pos.stop_loss_pct, RowConfig.stop_loss_pct)

RowTp1 == RowRead(lastEval.pos.take_profit_1_pct, RowConfig.take_profit_1_pct)

RowTp2 == RowRead(lastEval.pos.take_profit_2_pct, RowConfig.take_profit_2_pct)

\* trailing stop is enabled for the position
RowTrailingEnabled == lastEval.pos.trailing_stop_enabled.t = "true"

\* the trailing threshold in force: the row's, 15 when the key is absent, the
\* channel's when the row's is null or zero
RowTrailingPct ==
    LET f == lastEval.pos.trailing_stop_pct
    IN  IF f.t = "absent" THEN 15
        ELSE IF f.t = "num" /\ f.v # 0 THEN f.v
        ELSE RowConfig.trailing_stop_pct

StopLossCond == IsNum(RowStopLoss) /\ PnlAtMost(RowStopLoss.v)

DropAtLeast(x) == RowHighest > 0 /\ (RowHighest - RowCur) * 100 >= x * RowHighest

TrailingCond ==
    RowTrailingEnabled /\ RowHighest > 0 /\ PnlPositive /\ DropAtLeast(RowTrailingPct)

Tp1Cond == lastEval.pos.status = "bought" /\ IsNum(RowTp1) /\ PnlAtLeast(RowTp1.v)

Tp2Cond == lastEval.pos.status = "partial_tp1" /\ IsNum(RowTp2) /\ PnlAtLeast(RowTp2.v)

TimeDue ==
    IsNum(lastEval.pos.time_based_sell_at) /\ lastEval.now >= lastEval.pos.time_based_sell_at.v

\* the auto-sell requests of the evaluation
AutoSells == {i \in DOMAIN lastEval.calls : lastEval.calls[i].op = "trigger_auto_sell"}

Issued(reason, pct) ==
    \E i \in AutoSells :
        lastEval.calls[i].reason = reason /\ lastEval.calls[i].percentage = pct

IssuedOnly(reason, pct) ==
    /\ Issued(reason, pct)
    /\ \A i \in AutoSells :
          lastEval.calls[i].reason = reason /\ lastEval.calls[i].percentage = pct

IssuedReason(reason) == \E i \in AutoSells : lastEval.calls[i].reason = reason

\* C1: when several of the conditions stop-loss, trailing-stop, TP1, TP2 hold for
\* a position in one cycle, every auto-sell issued for it carries the reason and
\* percentage of the highest-priority one (stop-loss > trailing-stop > TP1 > TP2)
C1_PriorityOrder ==
    (HasPrice /\ AutoSells # {}) =>
        /\ (StopLossCond /\ (TrailingCond \/ Tp1Cond \/ Tp2Cond)) => IssuedOnly("stop_loss", 100)
        /\ (~StopLossCond /\ TrailingCond /\ (Tp1Cond \/ Tp2Cond)) => IssuedOnly("trailing_stop", 100)
        /\ ~(Tp1Cond /\ Tp2Cond)

\* C1 witness: trailing-stop and TP1 hold together without stop-loss, and the
\* auto-sell issued is the trailing stop
C1_Witness ==
    /\ Evaluated
    /\ ~StopLossCond /\ TrailingCond /\ Tp1Cond
    /\ Issued("trailing_stop", 100)

\* the highest price the backend holds for a trade, as a number when set
StoredSet(rows, i) == IsNum(rows[i].highest_price)

\* C2 (as amended): the highest_price a trade's row holds never decreases and, once
\* set, stays set; each evaluation reports max(stored highest_price, current_price),
\* seeded with current_price when none is stored, hence never less than the stored one
C2_HighestMonotone ==
    /\ [](Evaluated =>
            /\ lastEval.calls[1].op = "update_position_price"
            /\ lastEval.calls[1].current_price = RowCur
            /\ lastEval.calls[1].highest_price = Num(RowHighest)
            /\ (RowHadHighest => RowHighest >= lastEval.pos.highest_price.v)
            /\ StoredSet(trades, lastEval.pos.id)
                 => lastEval.calls[1].highest_price.v >= trades[lastEval.pos.id].highest_price.v)
    /\ [][\A i \in DOMAIN trades :
             StoredSet(trades, i) =>
                 /\ StoredSet(trades', i)
                 /\ trades'[i].highest_price.v >= trades[i].highest_price.v]_vars

\* C2 witness: a price below the stored highest was observed and the stored highest reported
C2_Witness ==
    /\ Evaluated
    /\ RowHadHighest
    /\ RowCur < lastEval.pos.highest_price.v
    /\ lastEval.calls[1].highest_price = lastEval.pos.highest_price

\* C2 as stated: the highest_price reported for a trade never decreases from one
\* report to the next
C2_ReportedMonotone ==
    [][\A i \in DOMAIN reported :
          (IsNum(reported[i]) /\ IsNum(reported'[i])) => reported'[i].v >= reported[i].v]_vars

\* C5: a bought position with pnl_pct >= take_profit_1_pct, for which neither the
\* stop-loss condition nor the trailing-stop condition (drop from high >=
\* trailing_stop_pct) holds, gets a 50% TP1 auto-sell in that cycle, whether or not
\* trailing stop is enabled
C5_Tp1Fires ==
    (Evaluated /\ Tp1Cond /\ ~StopLossCond /\ ~DropAtLeast(RowTrailingPct))
        => IssuedOnly("take_profit_1", 50)

\* the stop-loss threshold of the merged policy: the row's override when it is a
\* number, the channel's value when the override is absent or null
EffectiveStopLoss ==
    IF IsNum(lastEval.pos.stop_loss_pct)
    THEN lastEval.pos.stop_loss_pct.v
    ELSE RowConfig.stop_loss_pct

\* C6: whenever pnl_pct <= the effective stop_loss_pct (boundary included) the
\* monitor issues a 100% stop-loss auto-sell in that cycle, whatever the status,
\* the trailing-stop settings and time_based_sell_at
C6_StopLossFires ==
    (HasPrice /\ PnlAtMost(EffectiveStopLoss)) => IssuedOnly("stop_loss", 100)

\* what holds of the stop loss: with a threshold the monitor can compare
\* (a number, or the channel's for an absent key) it fires, boundary included
StopLossFiresWhenComparable ==
    (HasPrice /\ StopLossCond) => (Evaluated /\ IssuedOnly("stop_loss", 100))

C8_AtMostOneAutoSell ==
    HasPrice =>
        /\ Cardinality(AutoSells) <= 1
        /\ IssuedReason("time_based") =>
              /\ ~StopLossCond
              /\ ~TrailingCond
              /\ ~IssuedReason("stop_loss") /\ ~IssuedReason("trailing_stop")
              /\ ~IssuedReason("take_profit_1") /\ ~IssuedReason("take_profit_2")

\* C8 witness: a time-based auto-sell is the only request of an evaluation
C8_Witness == Evaluated /\ IssuedOnly("time_based", 100) /\ Cardinality(AutoSells) = 1

\* C9: whenever none of triggers 1-4 fired for a position in a cycle and
\* time_based_sell_at is set with now >= it, a 100% time-based auto-sell is issued
C9_TimeBasedFires ==
    (/\ HasPrice
     /\ ~IssuedReason("stop_loss") /\ ~IssuedReason("trailing_stop")
     /\ ~IssuedReason("take_profit_1") /\ ~IssuedReason("take_profit_2")
     /\ TimeDue)
        => IssuedOnly("time_based", 100)

\* what holds of the time-based exit: in an evaluation that ran to its API calls
\* it fires when nothing else did, also after a trailing-stop guard below its threshold
TimeBasedFiresWhenEvaluated ==
    (/\ Evaluated
     /\ ~IssuedReason("stop_loss") /\ ~IssuedReason("trailing_stop")
     /\ ~IssuedReason("take_profit_1") /\ ~IssuedReason("take_profit_2")
     /\ TimeDue)
        => IssuedOnly("time_based", 100)

\* C10: a TP1 auto-sell is issued only for a bought position and carries 50; a TP2
\* auto-sell only for a partial_tp1 position with pnl_pct >= take_profit_2_pct and
\* carries 100; every other auto-sell carries 100
C10_TakeProfitStatus ==
    \A i \in AutoSells :
        LET call == lastEval.calls[i]
        IN  /\ call.reason = "take_profit_1" =>
                 (lastEval.pos.status = "bought" /\ call.percentage = 50)
            /\ call.reason = "take_profit_2" =>
                 /\ lastEval.pos.status = "partial_tp1"
                 /\ trades[lastEval.pos.id].status = "partial_tp1"
                 /\ Tp2Cond
                 /\ call.percentage = 100
            /\ call.reason \notin {"take_profit_1", "take_profit_2"} =>
                 /\ call.reason \in {"stop_loss", "trailing_stop", "time_based"}
                 /\ call.percentage = 100

\* C10 witness: a TP1 auto-sell of 50% for a bought position
C10_Witness == Evaluated /\ lastEval.pos.status = "bought" /\ Issued("take_profit_1", 50)

----------------------------------------------------------------------------
(* Properties of the Trade Processor *)

\* C3: over any sequence of processor cycles, lost outcome reports included, at
\* most one buy transaction is submitted to the chain for a buy-trade
C3_AtMostOneBuyTx == \A i \in DOMAIN buy_txs : buy_txs[i] <= 1

\* C4: a sell request is consumed exactly once: at most one swap transaction is
\* submitted for it, and once it has been processed it has exactly one terminal
\* report, executed or failed
C4_SellConsumedOnce ==
    /\ \A i \in DOMAIN sell_txs : sell_txs[i] <= 1
    /\ \A i \in DOMAIN sell_reports : Len(sell_reports[i]) <= 1
    /\ lastProc.kind = "sell" => Len(sell_reports[lastProc.id]) = 1

----------------------------------------------------------------------------
(* Properties of the operations.                                            *)
(* They are stated on the call made last: its inputs, the outside calls it  *)
(* made (events) and what it returned.                                      *)

\* the call made last is a buy, a sell or an execute_swap
Swapping == lastCall.kind \in {"execute_swap", "buy", "sell"}

\* the call made last asked for a quote
Quoting == lastCall.kind \in {"get_quote", "buy", "sell"}

\* how often the call made the outside call `op`
CountOp(events, op) == Cardinality({i \in DOMAIN events : events[i].op = op})

Made(op) == CountOp(lastCall.result.events, op)

\* execute_swap was entered and got as far as its swap request
Executing == Swapping /\ Made("swap_request") >= 1

\* C11: once the transaction has been sent and a signature obtained, a confirmation
\* timeout still yields success=true with the signature; the transaction was sent
\* once and the result is not a failure
C11_TimeoutIsSuccess ==
    (Executing /\ lastCall.swap = "confirm_timeout") =>
        /\ Made("confirm_transaction") = 1
        /\ Made("send_raw_transaction") = 1
        /\ lastCall.result.success
        /\ ~lastCall.result.raised
        /\ lastCall.result.signature = Str
        /\ lastCall.result.error = ""

\* C11 witness: a buy whose confirmation timed out returned success with a signature
C11_Witness ==
    /\ lastCall.kind = "buy"
    /\ lastCall.swap = "confirm_timeout"
    /\ Made("confirm_transaction") = 1
    /\ lastCall.result.success /\ lastCall.result.signature = Str

\* the RPC connection failed inside execute_swap
ConnectFailed == lastCall.kind = "execute_swap" /\ lastCall.rpc = "none" /\ ~lastCall.connected

\* C12: execute_swap never raises; a failure of the RPC connection, the swap-build
\* request, decoding, signing or submission gives success=false with an error text,
\* and no transaction has been submitted
C12_ExecuteNeverRaises ==
    /\ lastCall.kind = "execute_swap" => ~lastCall.result.raised
    /\ Executing => ~lastCall.result.raised
    /\ (ConnectFailed
        \/ (Executing /\ lastCall.swap \in {"api_error", "no_swap_tx", "sign_error", "send_error"}))
         => /\ ~lastCall.result.success
            /\ lastCall.result.error # ""
            /\ ~lastCall.result.submitted
            /\ lastCall.result.signature = Null
            /\ Made("confirm_transaction") = 0

\* C12 witness: execute_swap without a reachable RPC endpoint returned a failure
C12_Witness ==
    /\ ConnectFailed
    /\ ~lastCall.result.success /\ ~lastCall.result.raised
    /\ Made("swap_request") = 0

\* the retries of the get_quote call made
Retries == IF lastCall.kind = "get_quote" THEN lastCall.retries ELSE DefaultRetries

Requests == CountOp(lastCall.quote_events, "quote_request")

Backoffs == CountOp(lastCall.quote_events, "sleep")

\* get_quote was called and `responses` are the answers it could draw on
QuoteCalled == Quoting /\ lastCall.responses # <<>>

Transient(response) == response.kind \in {"bad_request", "error"}

\* C13: a 'no route' answer ends get_quote with None: no request and no backoff
\* follows it, so that a first 'no route' answer costs exactly one request; when every
\* attempt fails with a transient error there are exactly `retries` requests with a
\* 1 s backoff between consecutive ones, then None; never more than `retries` requests
C13_QuoteAttempts ==
    QuoteCalled =>
        /\ Requests <= Retries
        /\ lastCall.responses[1].kind = "no_route" =>
              /\ Requests = 1 /\ Backoffs = 0
              /\ IsNone(lastCall.quote)
        /\ \A k \in 1..Requests :
              lastCall.responses[k].kind = "no_route" =>
                  /\ Requests = k
                  /\ lastCall.quote_events[Len(lastCall.quote_events)].op = "quote_request"
                  /\ IsNone(lastCall.quote)
        /\ (\A k \in 1..Retries : Transient(lastCall.responses[k])) =>
              /\ Requests = Retries
              /\ Backoffs = Retries - 1
              /\ Len(lastCall.quote_events) = 2 * Retries - 1
              /\ \A i \in DOMAIN lastCall.quote_events :
                    lastCall.quote_events[i] =
                        IF i % 2 = 1 THEN lastCall.quote_events[1] ELSE Ev("sleep", 1)
              /\ IsNone(lastCall.quote)

\* C13 witness: three transient errors, three requests, two backoffs, no quote
C13_Witness ==
    /\ lastCall.kind = "get_quote"
    /\ lastCall.retries = DefaultRetries
    /\ \A k \in 1..DefaultRetries : Transient(lastCall.responses[k])
    /\ Requests = DefaultRetries /\ Backoffs = DefaultRetries - 1
    /\ IsNone(lastCall.quote)

\* C14: get_quote returns a quote only with a positive output amount, and no quote
\* with a zero or missing output amount reaches execute_swap
C14_PositiveOutput ==
    /\ (QuoteCalled /\ ~IsNone(lastCall.quote)) => lastCall.quote.v > 0
    /\ (lastCall.kind \in {"buy", "sell"} /\ Executing) => lastCall.quote.v > 0

\* what holds of the output amount: the quote returned has an outAmount that is
\* true in Python's sense, which leaves out a missing field, null and the number 0
QuoteOutputTruthy ==
    (QuoteCalled /\ ~IsNone(lastCall.quote)) =>
        /\ lastCall.quote.t \in {"num", "numstr"}
        /\ lastCall.quote.t = "num" => lastCall.quote.v # 0

\* the call made nothing that leads to a transaction
NoTransaction ==
    /\ Made("swap_request") = 0 /\ Made("sign") = 0
    /\ Made("send_raw_transaction") = 0 /\ Made("confirm_transaction") = 0
    /\ ~lastCall.result.submitted

\* C15: with a SOL balance below amount_sol + 0.01, buy returns the insufficient
\* balance failure without calling the Quote Service and without any transaction
C15_InsufficientBalance ==
    (/\ lastCall.kind = "buy"
     /\ IsNum(lastCall.amount_sol) /\ IsNum(lastCall.balance)
     /\ lastCall.balance.v < lastCall.amount_sol.v + FeeReserve)
        => /\ ~lastCall.result.success /\ ~lastCall.result.raised
           /\ lastCall.result.error = "Insufficient SOL balance"
           /\ Made("get_quote") = 0 /\ lastCall.quote_events = <<>>
           /\ NoTransaction

\* C15 witness: a buy of 0.10 SOL on a balance of 0.10 SOL failed on the balance
C15_Witness ==
    /\ lastCall.kind = "buy"
    /\ lastCall.amount_sol = Num(10) /\ lastCall.balance = Num(10)
    /\ lastCall.result.error = "Insufficient SOL balance"
    /\ Made("get_quote") = 0

\* C16: with a token balance of 0 or an unreadable one, sell returns the no-balance
\* failure without calling the Quote Service and without any transaction
C16_NoBalance ==
    (lastCall.kind = "sell" /\ lastCall.token_amount \in {Null, Num(0)})
        => /\ ~lastCall.result.success /\ ~lastCall.result.raised
           /\ lastCall.result.error = "No token balance found"
           /\ Made("get_quote") = 0 /\ lastCall.quote_events = <<>>
           /\ NoTransaction

\* C16 witness: a sell on an unreadable balance failed with no balance
C16_Witness ==
    /\ lastCall.kind = "sell"
    /\ lastCall.token_amount = Null
    /\ lastCall.result.error = "No token balance found"
    /\ Made("get_quote") = 0

\* the amounts sell asked a quote for
QuotedAmounts ==
    {lastCall.result.events[i].amount :
        i \in {j \in DOMAIN lastCall.result.events : lastCall.result.events[j].op = "get_quote"}}

\* C17: the amount sell asks a quote for is floor(balance * percentage / 100); when
\* that is zero sell returns nothing-to-sell without a quote; for a percentage in
\* 1..100 the quoted amount a satisfies 0 < a <= balance
C17_SellAmount ==
    (/\ lastCall.kind = "sell"
     /\ IsNum(lastCall.token_amount) /\ lastCall.token_amount.v > 0
     /\ IsNum(lastCall.percentage) /\ lastCall.percentage.v >= 0)
        => LET product == lastCall.token_amount.v * lastCall.percentage.v
           IN  /\ \A a \in QuotedAmounts : a * 100 <= product /\ product < (a + 1) * 100
               /\ product < 100 =>
                     /\ QuotedAmounts = {}
                     /\ lastCall.quote_events = <<>>
                     /\ lastCall.result.error = "No tokens to sell"
                     /\ ~lastCall.result.success /\ NoTransaction
               /\ product >= 100 => Cardinality(QuotedAmounts) = 1
               /\ lastCall.percentage.v \in 1..100 =>
                     \A a \in QuotedAmounts : 0 < a /\ a <= lastCall.token_amount.v

\* C17 witness: 50% of 199 base units is quoted as 99
C17_Witness ==
    /\ lastCall.kind = "sell"
    /\ lastCall.token_amount = Num(199) /\ lastCall.percentage = Num(50)
    /\ QuotedAmounts = {99}

\* C18: when get_quote returns None in buy or sell, or the swap endpoint returns no
\* swap transaction, the operation returns the matching failure and nothing is
\* signed or submitted
C18_NoExecutableTransaction ==
    /\ (lastCall.kind \in {"buy", "sell"} /\ QuoteCalled /\ IsNone(lastCall.quote)) =>
          /\ ~lastCall.result.success /\ ~lastCall.result.raised
          /\ lastCall.result.error =
                IF lastCall.kind = "buy" THEN "Failed to get Jupiter quote"
                ELSE "Failed to get Jupiter quote for sell"
          /\ NoTransaction
    /\ (Executing /\ lastCall.swap = "no_swap_tx") =>
          /\ ~lastCall.result.success /\ ~lastCall.result.raised
          /\ lastCall.result.error = "No swap transaction returned from Jupiter"
          /\ Made("sign") = 0 /\ Made("send_raw_transaction") = 0
          /\ ~lastCall.result.submitted

\* C18 witness: a sell whose quote request found no route failed without a transaction
C18_Witness ==
    /\ lastCall.kind = "sell"
    /\ QuoteCalled /\ IsNone(lastCall.quote)
    /\ lastCall.responses[1].kind = "no_route"
    /\ lastCall.result.error = "Failed to get Jupiter quote for sell"
    /\ Made("swap_request") = 0

\* C19: in a processor cycle, the handling of one item, whatever its failure, leaves
\* the rest of the batch to be handled: the loop goes on with the next item
C19_BatchContinues ==
    [][(queue # <<>> /\ queue' # queue) =>
          (queue' = Tail(queue) /\ proc_pc' = proc_pc)]_vars

\* what holds of the batch: an item whose outcome was reported, success or
\* failure, is followed by the next item of the batch
BatchContinuesAfterReport ==
    [][(queue # <<>> /\ queue' # queue /\ lastProc'.outcome = "reported") =>
          (queue' = Tail(queue) /\ proc_pc' = proc_pc)]_vars

\* C20: for each buy-trade handled exactly one outcome is reported: bought when
\* buy succeeded, failed otherwise; never both for one trade; bought only after a
\* transaction was submitted for it
C20_OneBuyOutcome ==
    /\ lastProc.kind = "buy" =>
          /\ Len(lastProc.calls) = 1
          /\ lastProc.calls[1] =
                IF lastProc.success THEN "update_trade_bought" ELSE "update_trade_failed"
          /\ lastProc.calls[1] = "update_trade_bought" =>
                (lastProc.submitted /\ buy_txs[lastProc.id] >= 1)
    /\ \A i \in DOMAIN buy_reports :
          ~(\E j, k \in DOMAIN buy_reports[i] :
                buy_reports[i][j] = "update_trade_bought"
                /\ buy_reports[i][k] = "update_trade_failed")

\* what holds of the outcome of a buy: a handling that reached buy_token reports
\* exactly one outcome, bought only for a submitted transaction
OneOutcomePerHandledBuy ==
    (lastProc.kind = "buy" /\ lastProc.outcome = "reported") =>
        /\ Len(lastProc.calls) = 1
        /\ lastProc.calls[1] =
              IF lastProc.success THEN "update_trade_bought" ELSE "update_trade_failed"
        /\ lastProc.calls[1] = "update_trade_bought" => lastProc.submitted

----------------------------------------------------------------------------
(* Properties of the Trade Processor: sell requests *)

\* the sell request handled last, as the backend holds it
SellHandled == sells[lastProc.id]

\* the request has no contract address the processor can resolve: no joined trade,
\* a null one, or a joined trade without contract address
Unresolvable(row) ==
    \/ row.trades.t \in {"absent", "null"}
    \/ row.trades.contract_address.t \in {"absent", "null"}

\* C21: a sell request without a resolvable contract address is reported failed at
\* once, with no balance read, no quote request and no swap, and the processor goes
\* on with the next sell request
C21_MissingContractFails ==
    (lastProc.kind = "sell" /\ Unresolvable(SellHandled)) =>
        /\ lastProc.calls = <<"update_sell_failed">>
        /\ lastProc.error = "Missing contract address"
        /\ lastProc.events = <<>>
        /\ ~lastProc.submitted
        /\ proc_pc = "sell_loop"

\* what holds of a missing contract address: a request whose joined trade is
\* missing or carries no contract address is reported failed without any call
MissingContractFailsUnlessNullJoin ==
    (lastProc.kind = "sell" /\ Unresolvable(SellHandled) /\ SellHandled.trades.t # "null") =>
        /\ lastProc.calls = <<"update_sell_failed">>
        /\ lastProc.error = "Missing contract address"
        /\ lastProc.events = <<>>
        /\ ~lastProc.submitted
        /\ proc_pc = "sell_loop"

\* the handling made last reported a partial-TP1 transition
ReportedPartialTp1 == \E i \in DOMAIN lastProc.calls : lastProc.calls[i] = "update_partial_tp1"

\* C22: a partial-TP1 transition is reported if and only if a sell request that is
\* linked to a trade and has percentage exactly 50 was executed successfully; a buy,
\* a failed sell, another percentage or an unlinked sell never reports one
C22_PartialTp1Iff ==
    /\ lastProc.kind # "sell" => ~ReportedPartialTp1
    /\ lastProc.kind = "sell" =>
          (ReportedPartialTp1 <=>
              /\ lastProc.success
              /\ lastProc.calls[1] = "update_sell_executed"
              /\ SellHandled.trade_id.t = "num" /\ SellHandled.trade_id.v # 0
              /\ SellHandled.percentage = Num(50))

\* C22 witness: a linked 50% sell was executed and the transition reported
C22_Witness ==
    /\ lastProc.kind = "sell"
    /\ lastProc.success
    /\ SellHandled.percentage = Num(50) /\ SellHandled.trade_id = Num(1)
    /\ lastProc.calls = <<"update_sell_executed", "update_partial_tp1">>

--------------------------------------------------------------------------------
\* run(): asyncio.gather(process_pending_trades(), monitor_positions()), the two
\* loops interleaved over one backend

\* an open position whose stored highest is the highest price of the model
HeldRow == [BaseRow EXCEPT !.highest_price = Num(60)]

\* one pending buy; a pending 50% sell of the open position, followed by a
\* request whose join is null
RunInit ==
    /\ running = TRUE
    /\ trades = <<HeldRow>>
    /\ positions = <<>>
    /\ mon_pc = "fetch"
    /\ lastEval = NoEval
    /\ reported = [i \in DOMAIN trades |-> Null]
    /\ buys = <<BuyRow(1, Str, Absent)>>
    /\ sells = <<SellRow(1, TradeInfo(Str), Num(50), Num(1)),
                 SellRow(2, NullTradeInfo, Num(100), Null)>>
    /\ proc_pc = "trades"
    /\ queue = <<>>
    /\ lastProc = NoProc
    /\ buy_txs = [i \in DOMAIN buys |-> 0]
    /\ sell_txs = [i \in DOMAIN sells |-> 0]
    /\ buy_reports = [i \in DOMAIN buys |-> <<>>]
    /\ sell_reports = [i \in DOMAIN sells |-> <<>>]
    /\ rpc = "none"
    /\ lastCall = NoCall
    /\ http = "open" /\ in_flight = {}
    /\ requested = [i \in DOMAIN trades |-> {}]

\* the answers of the outside world while the two loops run together
RunPrices == {Null, Num(17), Num(40)}

RunFallbacks == {[balance |-> [t |-> "raise", v |-> 0], quote |-> Null],
                 [balance |-> Num(1), quote |-> Num(60)]}

RunSwaps == {"send_error", "confirmed"}

RunEval == MonitorEvalOn(RunPrices, RunFallbacks, FALSE)

RunBuy == ProcBuyOn({Num(30)}, {Num(1000)}, RunSwaps)

RunSell == ProcSellOn({Num(4)}, {Num(1000)}, RunSwaps)

RunNext ==
    \/ MonitorFetch
    \/ RunEval
    \/ MonitorSleep
    \/ MonitorBackoff
    \/ BackendPartialTp1
    \/ ProcFetchTrades
    \/ RunBuy
    \/ ProcFetchSells
    \/ RunSell
    \/ ProcSleep
    \/ ProcBackoff

SpecRun == RunInit /\ [][RunNext]_vars

--------------------------------------------------------------------------------
\* the monitor over several cycles, with the history of its auto-sell requests

\* an open position that takes profit: no trailing stop, the channel's TP1 of 50%
TakeProfitRow == [BaseRow EXCEPT !.trailing_stop_enabled = Bool(FALSE)]

ReqInit ==
    /\ running = TRUE
    /\ trades \in {<<BaseRow>>, <<TakeProfitRow>>}
    /\ positions = <<>>
    /\ mon_pc = "fetch"
    /\ lastEval = NoEval
    /\ reported = [i \in DOMAIN trades |-> Null]
    /\ buys = <<>> /\ sells = <<>>
    /\ proc_pc = "trades" /\ queue = <<>> /\ lastProc = NoProc
    /\ buy_txs = <<>> /\ sell_txs = <<>>
    /\ buy_reports = <<>> /\ sell_reports = <<>>
    /\ rpc = "none" /\ lastCall = NoCall
    /\ http = "open" /\ in_flight = {}
    /\ requested = [i \in DOMAIN trades |-> {}]

ReqEval == MonitorEvalOn(PriceAnswers, FallbackAnswers, TRUE)

ReqNext ==
    \/ MonitorFetch
    \/ ReqEval
    \/ MonitorSleep
    \/ MonitorBackoff
    \/ BackendPartialTp1

SpecReq == ReqInit /\ [][ReqNext]_vars

--------------------------------------------------------------------------------
\* run() and stop(): the two loops, the awaits inside one swap, and the shutdown

\* one pending buy; a pending 50% sell of the open position, followed by a
\* request whose join is null
LifeInit ==
    /\ running = TRUE
    /\ trades = <<HeldRow>>
    /\ positions = <<>>
    /\ mon_pc = "fetch"
    /\ lastEval = NoEval
    /\ reported = [i \in DOMAIN trades |-> Null]
    /\ buys = <<BuyRow(1, Str, Absent)>>
    /\ sells = <<SellRow(1, TradeInfo(Str), Num(50), Num(1)),
                 SellRow(2, NullTradeInfo, Num(100), Null)>>
    /\ proc_pc = "trades"
    /\ queue = <<>>
    /\ lastProc = NoProc
    /\ buy_txs = [i \in DOMAIN buys |-> 0]
    /\ sell_txs = [i \in DOMAIN sells |-> 0]
    /\ buy_reports = [i \in DOMAIN buys |-> <<>>]
    /\ sell_reports = [i \in DOMAIN sells |-> <<>>]
    /\ rpc = "none"
    /\ lastCall = NoCall
    /\ http = "open" /\ in_flight = {}
    /\ requested = [i \in DOMAIN trades |-> {}]

\* stop(): self.running = False; await self.http.aclose()
Stop ==
    /\ running
    /\ running' = FALSE
    /\ http' = "closing"
    /\ lastProc' = IF proc_pc \in {"quoted", "built", "sent"}
                   THEN [lastProc EXCEPT !.stopped = TRUE]
                   ELSE lastProc
    /\ UNCHANGED <<buys, sells, proc_pc, queue, buy_txs, sell_txs, buy_reports, sell_reports>>
    /\ UNCHANGED monVars
    /\ UNCHANGED <<rpc, lastCall, in_flight, requested>>

\* stop(): if self.rpc: await self.rpc.close()
StopRpc ==
    /\ http = "closing"
    /\ http' = "closed"
    /\ rpc' = IF rpc = "none" THEN "none" ELSE "closed"
    /\ UNCHANGED running
    /\ UNCHANGED monVars
    /\ UNCHANGED procVars
    /\ UNCHANGED <<lastCall, in_flight, requested>>

\* the evaluation of a position while stop() may have closed the client: the
\* price index and the quote fallback both go through self.http
LifeEval ==
    MonitorEvalOn(IF http = "open" THEN RunPrices ELSE {Null},
                  IF http = "open" THEN RunFallbacks ELSE {NoFallback}, FALSE)

\* monitor_positions(): while self.running is false at the top of a cycle
MonitorExit ==
    /\ mon_pc = "fetch"
    /\ ~loop_continues(running)
    /\ mon_pc' = "done"
    /\ UNCHANGED <<running, trades, positions, lastEval, reported>>
    /\ UNCHANGED procVars
    /\ UNCHANGED opVars
    /\ UNCHANGED lifeVars

\* process_pending_trades(): while self.running is false at the top of a cycle
ProcExit ==
    /\ proc_pc = "trades"
    /\ ~loop_continues(running)
    /\ proc_pc' = "done"
    /\ UNCHANGED <<running, buys, sells, queue, lastProc, buy_txs, sell_txs, buy_reports, sell_reports>>
    /\ UNCHANGED monVars
    /\ UNCHANGED opVars
    /\ UNCHANGED lifeVars

\* the item the processor is handling
SwapItem(kind, id, outcome, stopped) ==
    [NoProc EXCEPT !.kind = kind, !.id = id, !.outcome = outcome, !.stopped = stopped]

\* the handling of an item ends: the outcome goes to the backend, the loop moves on
LifeReport(kind, item, success, submitted, error, stopped, arrived, tp1_arrived) ==
    LET op == IF kind = "buy"
              THEN IF success THEN "update_trade_bought" ELSE "update_trade_failed"
              ELSE IF success THEN "update_sell_executed" ELSE "update_sell_failed"
        trade_id == IF kind = "sell" THEN GetOrNone(item.trade_id) ELSE Null
        tp1 == kind = "sell" /\ success /\ is_tp1_sell(trade_id, Get(item.percentage, Num(100)))
    IN  /\ proc_pc' = IF kind = "buy" THEN "buy_loop" ELSE "sell_loop"
        /\ queue' = Tail(queue)
        /\ lastProc' = [SwapItem(kind, item.id, "reported", stopped) EXCEPT
                           !.success = success, !.submitted = submitted, !.error = error,
                           !.calls = IF tp1 THEN <<op, "update_partial_tp1">> ELSE <<op>>]
        /\ in_flight' = in_flight \ {<<kind, item.id>>}
        /\ buys' = IF kind = "buy" THEN store_trade(buys, item.id, op, arrived) ELSE buys
        /\ sells' = IF kind = "sell" THEN store_sell(sells, item.id, op, arrived) ELSE sells
        /\ trades' = IF tp1 THEN store_partial_tp1(trades, trade_id.v, tp1_arrived) ELSE trades

\* what comes ahead of execute_swap: the balance read, the quote
PreSwap == {"raise", "insufficient", "no_quote", "quoted"}

\* the body of the for loop up to the quote handed to execute_swap
LifeBegin ==
    /\ proc_pc \in {"buy_loop", "sell_loop"}
    /\ queue # <<>>
    /\ \E pre \in PreSwap, arrived \in BOOLEAN :
          LET kind == IF proc_pc = "buy_loop" THEN "buy" ELSE "sell"
              item == Head(queue)
              contract_address ==
                  IF kind = "buy" THEN GetOrNone(item.contract_address)
                  ELSE IF item.trades.t = "absent" THEN Null
                  ELSE GetOrNone(item.trades.contract_address)
              raises == IF kind = "buy" THEN IsNone(contract_address) ELSE item.trades.t = "null"
              \* a closed rpc client fails the balance read, a closed http client the quote
              outcome == IF rpc = "closed" THEN "raise"
                         ELSE IF pre = "quoted" /\ http # "open" THEN "no_quote"
                         ELSE pre
          IN  IF raises
              THEN /\ proc_pc' = "backoff"
                   /\ queue' = <<>>
                   /\ lastProc' = [SwapItem(kind, item.id, "raised", FALSE) EXCEPT !.error = "exception"]
                   /\ UNCHANGED <<buys, sells, trades, rpc, in_flight>>
              ELSE IF kind = "sell" /\ ~Truthy(contract_address)
              THEN /\ LifeReport(kind, item, FALSE, FALSE, "Missing contract address",
                                 FALSE, arrived, FALSE)
                   /\ UNCHANGED rpc
              ELSE IF outcome = "quoted"
              THEN /\ proc_pc' = "quoted"
                   /\ lastProc' = SwapItem(kind, item.id, "quoted", FALSE)
                   /\ rpc' = "set"
                   /\ UNCHANGED <<queue, buys, sells, trades, in_flight>>
              ELSE /\ LifeReport(kind, item, FALSE, FALSE, outcome, FALSE, arrived, FALSE)
                   /\ rpc' = IF rpc = "none" /\ outcome # "raise" THEN "set" ELSE rpc
    /\ UNCHANGED <<running, buy_txs, sell_txs, buy_reports, sell_reports>>
    /\ UNCHANGED <<positions, mon_pc, lastEval, reported>>
    /\ UNCHANGED <<lastCall, http, requested>>

\* (mutant) the swap is started and the loop moves on without awaiting it
after_build_detached(kind) == IF kind = "buy" THEN "buy_loop" ELSE "sell_loop"

\* result = await self.execute_swap(quote): the processor stays inside the swap
after_build(kind) == "built"

\* execute_swap: the swap-build request to Jupiter, over self.http
LifeBuild ==
    /\ proc_pc = "quoted"
    /\ \E built \in BOOLEAN, arrived \in BOOLEAN :
          LET kind == lastProc.kind
              item == Head(queue)
          IN  IF http # "open"
              THEN LifeReport(kind, item, FALSE, FALSE, "closed", lastProc.stopped, arrived, FALSE)
              ELSE IF ~built
              THEN LifeReport(kind, item, FALSE, FALSE, "swap_api_error", lastProc.stopped,
                              arrived, FALSE)
              ELSE /\ proc_pc' = after_build(kind)
                   /\ queue' = IF after_build(kind) = "built" THEN queue ELSE Tail(queue)
                   /\ lastProc' = [lastProc EXCEPT !.outcome = "built"]
                   /\ in_flight' = in_flight \cup {<<kind, item.id>>}
                   /\ UNCHANGED <<buys, sells, trades>>
    /\ UNCHANGED <<running, buy_txs, sell_txs, buy_reports, sell_reports>>
    /\ UNCHANGED <<positions, mon_pc, lastEval, reported>>
    /\ UNCHANGED <<rpc, lastCall, http, requested>>

\* execute_swap: sign and send_raw_transaction, over self.rpc
LifeSend ==
    /\ proc_pc = "built"
    /\ \E sent \in BOOLEAN, arrived \in BOOLEAN :
          LET kind == lastProc.kind
              item == Head(queue)
          IN  IF rpc = "closed"
              THEN LifeReport(kind, item, FALSE, FALSE, "closed", lastProc.stopped, arrived, FALSE)
              ELSE IF ~sent
              THEN LifeReport(kind, item, FALSE, FALSE, "send_error", lastProc.stopped,
                              arrived, FALSE)
              ELSE /\ proc_pc' = "sent"
                   /\ lastProc' = [lastProc EXCEPT !.outcome = "sent", !.submitted = TRUE]
                   /\ UNCHANGED <<queue, buys, sells, trades, in_flight>>
    /\ UNCHANGED <<running, buy_txs, sell_txs, buy_reports, sell_reports>>
    /\ UNCHANGED <<positions, mon_pc, lastEval, reported>>
    /\ UNCHANGED <<rpc, lastCall, http, requested>>

\* execute_swap: confirm_transaction under wait_for, over self.rpc
LifeConfirm ==
    /\ proc_pc = "sent"
    /\ \E answer \in {"confirmed", "confirm_timeout", "confirm_error"}, arrived \in BOOLEAN, tp1_arrived \in BOOLEAN :
          LET kind == lastProc.kind
              item == Head(queue)
          IN  IF rpc = "closed"
              THEN LifeReport(kind, item, FALSE, TRUE, "closed", lastProc.stopped, arrived, FALSE)
              ELSE IF answer = "confirm_error"
              THEN LifeReport(kind, item, FALSE, TRUE, "confirm_error", lastProc.stopped,
                              arrived, FALSE)
              ELSE LifeReport(kind, item, TRUE, TRUE, "", lastProc.stopped, arrived, tp1_arrived)
    /\ UNCHANGED <<running, buy_txs, sell_txs, buy_reports, sell_reports>>
    /\ UNCHANGED <<positions, mon_pc, lastEval, reported>>
    /\ UNCHANGED <<rpc, lastCall, http, requested>>

\* a step of monitor_positions()
LifeMonitor ==
    \/ MonitorFetch
    \/ LifeEval
    \/ MonitorSleep
    \/ MonitorBackoff
    \/ MonitorExit

\* a step of process_pending_trades()
LifeProcessor ==
    \/ ProcFetchTrades
    \/ ProcFetchSells
    \/ LifeBegin
    \/ LifeBuild
    \/ LifeSend
    \/ LifeConfirm
    \/ ProcSleep
    \/ ProcBackoff
    \/ ProcExit

LifeNext ==
    \/ LifeMonitor
    \/ LifeProcessor
    \/ Stop
    \/ StopRpc

\* asyncio runs every task that can run: neither loop waits forever
SpecLife == LifeInit /\ [][LifeNext]_vars /\ WF_vars(LifeMonitor) /\ WF_vars(LifeProcessor)

--------------------------------------------------------------------------------
\* Properties of the Position Monitor: price lookup and reports

\* the last evaluation asked for the price and neither the price index nor the
\* fallback (balance read, then quote for the whole balance) gave one
PriceUnavailable ==
    /\ lastEval.outcome \in {"no_price", "raised", "evaluated"}
    /\ IsNone(lastEval.answers.price)
    /\ \/ lastEval.answers.balance.t = "raise"
       \/ ~Truthy(lastEval.answers.balance)
       \/ ~Truthy(lastEval.answers.quote)

\* a step that handles the head of the positions of the cycle
HandlesPosition == mon_pc = "loop" /\ positions # <<>> /\ positions' # positions

\* C23: when neither the price index nor the fallback gives a price, the monitor
\* skips the position: no price update, no auto-sell request, and no error, the
\* cycle goes on with the next position.
C23_NoPriceNoAction ==
    PriceUnavailable =>
        /\ lastEval.outcome = "no_price"
        /\ lastEval.calls = <<>>
        /\ mon_pc = "loop"

\* C23, as far as the code goes: without a price nothing is sent to the backend,
\* and the position is skipped quietly unless connect_rpc raised in the fallback.
NoPriceNoActionUnlessRaised ==
    [][HandlesPosition /\ PriceUnavailable' =>
          /\ lastEval'.calls = <<>>
          /\ UNCHANGED <<trades, reported>>
          /\ lastEval'.answers.balance.t # "raise" =>
                lastEval'.outcome = "no_price" /\ positions' = Tail(positions)]_vars

\* C23 (the failing case): the price index has no price and connect_rpc raises
\* in the fallback.
C23_RaisedInFallback ==
    /\ PriceUnavailable
    /\ lastEval.outcome = "raised"
    /\ mon_pc = "backoff"

\* the first backend call of the last evaluation is the price report, with the
\* current price and the highest price of the evaluation
PriceReportedFirst ==
    /\ Len(lastEval.calls) >= 1
    /\ lastEval.calls[1].op = "update_position_price"
    /\ lastEval.calls[1].current_price = lastEval.current_price.v
    /\ lastEval.calls[1].highest_price = lastEval.new_highest

\* auto-sell requests come after the price report, one exactly when a trigger fired
AutoSellAfterReport ==
    /\ \A i \in AutoSells : i > 1
    /\ (AutoSells # {}) <=> (lastEval.action_needed # NoAction)
    /\ Len(lastEval.calls) = 1 + Cardinality(AutoSells)

\* C24: every position evaluated with an available price gets its current and
\* highest price reported, whether or not a trigger fired, and an auto-sell is
\* requested only when a trigger fired and only after that report.
C24_ReportThenAutoSell ==
    HasPrice => PriceReportedFirst /\ AutoSellAfterReport

\* C24, as far as the code goes: an evaluation that reaches the end of the
\* trigger checks reports the price first and requests the auto-sell after it.
ReportThenAutoSellWhenEvaluated ==
    Evaluated => PriceReportedFirst /\ AutoSellAfterReport

\* auto_sell_enabled is false, or the contract address or the entry price is missing
Disabled(row) ==
    \/ row.auto_sell_enabled = Bool(FALSE)
    \/ row.contract_address \in {Absent, Null}
    \/ row.entry_price \in {Absent, Null}

\* C27: a position whose auto_sell_enabled is false, or which has no contract
\* address or no entry price, is passed over in every cycle: the monitor asks no
\* price for it and sends neither a price update nor an auto-sell request.
C27_DisabledUntouched ==
    [][HandlesPosition /\ Disabled(Head(positions)) =>
          /\ lastEval'.pos = Head(positions)
          /\ lastEval'.outcome = "skipped"
          /\ lastEval'.calls = <<>> /\ lastEval'.events = <<>>
          /\ UNCHANGED <<trades, reported>>
          /\ positions' = Tail(positions)]_vars

\* C27 witness: a position with contract address and entry price whose
\* auto_sell_enabled is false was passed over
C27_Witness ==
    /\ lastEval.outcome = "skipped"
    /\ lastEval.pos.auto_sell_enabled = Bool(FALSE)
    /\ Truthy(lastEval.pos.contract_address) /\ Truthy(lastEval.pos.entry_price)
    /\ lastEval.calls = <<>>
    /\ mon_pc = "loop" /\ positions = <<>>

\* C26: an exception raised while one position is evaluated is caught at that
\* position: the positions that remain in the cycle are evaluated all the same.
C26_RemainingEvaluated ==
    [][HandlesPosition /\ Tail(positions) # <<>> =>
          positions' = Tail(positions) /\ mon_pc' = "loop"]_vars

\* C26, as far as the code goes: a position handled without an exception leaves
\* the remaining positions of the cycle to be evaluated.
RemainingEvaluatedUnlessRaised ==
    [][HandlesPosition /\ lastEval'.outcome # "raised" =>
          positions' = Tail(positions) /\ mon_pc' = "loop"]_vars

--------------------------------------------------------------------------------
\* Properties of the Position Monitor: the policy in force

\* a field of the trade that is absent or null leaves the policy to the channel
Unset(field) == field \in {Absent, Null}

EffectiveTrailingEnabled ==
    IF Unset(lastEval.pos.trailing_stop_enabled)
    THEN RowConfig.trailing_stop_enabled
    ELSE Truthy(lastEval.pos.trailing_stop_enabled)

EffectiveTrailingPct ==
    IF IsNum(lastEval.pos.trailing_stop_pct)
    THEN lastEval.pos.trailing_stop_pct.v
    ELSE RowConfig.trailing_stop_pct

\* the trade says nothing of trailing_stop_enabled and its channel enables it
ChannelTrailing ==
    Unset(lastEval.pos.trailing_stop_enabled) /\ RowConfig.trailing_stop_enabled

\* C28: each policy field is the trade's when the trade has one and the channel's
\* when the trade's is absent or null: the stop loss and the trailing stop fire by
\* the thresholds so merged, and a trade without trailing_stop_enabled on a channel
\* that enables the trailing stop is evaluated with the trailing stop enabled.
C28_OverrideElseChannel ==
    HasPrice =>
        /\ IssuedReason("stop_loss") <=> PnlAtMost(EffectiveStopLoss)
        /\ IssuedReason("trailing_stop") <=>
              /\ ~PnlAtMost(EffectiveStopLoss)
              /\ EffectiveTrailingEnabled
              /\ RowHighest > 0 /\ PnlPositive
              /\ DropAtLeast(EffectiveTrailingPct)

\* C28 (the failing case): a trade without a trailing_stop_enabled key on a channel
\* that enables the trailing stop, in profit and fallen from its highest by at
\* least the channel's trailing_stop_pct, gets a take-profit request instead of
\* the trailing stop.
C28_ChannelTrailingIgnored ==
    /\ Evaluated
    /\ lastEval.pos.trailing_stop_enabled = Absent
    /\ ChannelTrailing
    /\ ~PnlAtMost(EffectiveStopLoss)
    /\ RowHighest > 0 /\ PnlPositive /\ DropAtLeast(EffectiveTrailingPct)
    /\ IssuedOnly("take_profit_1", 50)

--------------------------------------------------------------------------------
\* Properties of the channel resolver and of the RPC connection

\* the entry of the table a channel name is expected to resolve to (0: none)
ExpectedEntry(name) ==
    CASE name = "Memecoin-Alpha" -> 1
      [] name = "x-MEMECOIN-CHAT" -> 2
      [] name = "under-100k-gems" -> 3
      [] name = "memecoin-chat-of-memecoin-alpha" -> 1
      [] OTHER -> 0

\* C29: the resolver returns the policy of the first entry of the table, in the
\* order memecoin-alpha, memecoin-chat, under-100k, whose pattern occurs in the
\* channel name whatever the case of its letters, and the default policy, with
\* trailing stop and time-based exit disabled, when no pattern does; every call
\* with the same name returns the same policy.
C29_FirstMatchElseDefault ==
    lastCall.kind = "get_channel_config" =>
        LET name == lastCall.channel_name
            channel_lower == lower(Chars(name))
            result == lastCall.result
        IN  /\ <<CHANNEL_CONFIGS[1].pattern, CHANNEL_CONFIGS[2].pattern,
                 CHANNEL_CONFIGS[3].pattern>> = <<MemecoinAlpha, MemecoinChat, Under100k>>
            /\ result = IF Contains(MemecoinAlpha, channel_lower) THEN CHANNEL_CONFIGS[1]
                        ELSE IF Contains(MemecoinChat, channel_lower) THEN CHANNEL_CONFIGS[2]
                        ELSE IF Contains(Under100k, channel_lower) THEN CHANNEL_CONFIGS[3]
                        ELSE ChannelConfig
            /\ result = IF ExpectedEntry(name) = 0 THEN ChannelConfig
                        ELSE CHANNEL_CONFIGS[ExpectedEntry(name)]
            /\ ExpectedEntry(name) = 0 =>
                  ~result.trailing_stop_enabled /\ ~result.time_based_sell_enabled
            /\ result = config_of[name]

\* C29 witness: a name in which two patterns occur, the later entry's first,
\* resolved to the earlier entry of the table
C29_Witness ==
    /\ lastCall.kind = "get_channel_config"
    /\ lastCall.channel_name = "memecoin-chat-of-memecoin-alpha"
    /\ lastCall.result = CHANNEL_CONFIGS[1]
    /\ lastCall.result.stop_loss_pct = -25

\* C30: connect_rpc tries the endpoints in list order and stops at the first one
\* that answers the liveness call, which becomes the active endpoint, no later
\* endpoint being tried; when none answers it raises.
C30_FirstAliveEndpoint ==
    lastCall.kind = "connect_rpc" =>
        LET up == {i \in DOMAIN RPC_ENDPOINTS : lastCall.alive[i]}
            result == lastCall.result
        IN  IF up = {}
            THEN result.raised /\ result.tried = RPC_ENDPOINTS
            ELSE LET first == CHOOSE i \in up : \A j \in up : i <= j
                 IN  /\ ~result.raised
                     /\ result.tried = SubSeq(RPC_ENDPOINTS, 1, first)
                     /\ result.rpc = RPC_ENDPOINTS[first]
                     /\ result.rpc_url = RPC_ENDPOINTS[first]

\* C30 witness: the first endpoint fails, the second and third would answer,
\* and the second is the active one with the third never tried
C30_Witness ==
    /\ lastCall.kind = "connect_rpc"
    /\ lastCall.alive = <<FALSE, TRUE, TRUE>>
    /\ lastCall.result.tried = SubSeq(RPC_ENDPOINTS, 1, 2)
    /\ lastCall.result.rpc_url = RPC_ENDPOINTS[2]
    /\ ~lastCall.result.raised

\* C30 witness of the failure: no endpoint answers and the call raises
ConnectRaises ==
    /\ lastCall.kind = "connect_rpc"
    /\ lastCall.result.raised
    /\ lastCall.result.tried = RPC_ENDPOINTS

--------------------------------------------------------------------------------
\* Properties of the two loops running together

\* the outside calls of the Swap Executor: building, signing, submitting and
\* confirming a swap transaction
SwapOps == {"swap_request", "sign", "send_raw_transaction", "confirm_transaction"}

\* what an evaluation of the monitor did: it read prices, balances and quotes,
\* and sent price updates and auto-sell requests to the backend
MonitorOnlyReads(ev) ==
    /\ \A i \in DOMAIN ev.events :
          /\ ev.events[i].op \notin SwapOps
          /\ ev.events[i].op \in {"get_token_price_sol", "get_token_balance",
                                  "connect_rpc", "get_quote"}
    /\ \A i \in DOMAIN ev.calls :
          ev.calls[i].op \in {"update_position_price", "trigger_auto_sell"}

\* a step of the monitor loop, a step of the processor loop
MonitorStep == <<positions, mon_pc, lastEval, reported>>' # <<positions, mon_pc, lastEval, reported>>

ProcessorStep == <<proc_pc, queue, lastProc>>' # <<proc_pc, queue, lastProc>>

\* a transaction was submitted in the step
Submitted == buy_txs' # buy_txs \/ sell_txs' # sell_txs

\* C25: the Position Monitor never executes a swap. However the two loops
\* interleave, a step of the monitor builds and submits no transaction, it only
\* reads prices, balances and quotes and sends price updates and auto-sell
\* requests; every transaction is submitted in a step of the Trade Processor.
C25_OnlyProcessorSwaps ==
    [][/\ MonitorOnlyReads(lastEval')
       /\ MonitorStep => UNCHANGED <<buy_txs, sell_txs, lastProc>>
       /\ Submitted =>
             /\ ProcessorStep /\ ~MonitorStep
             /\ proc_pc \in {"buy_loop", "sell_loop"}
             /\ \E i \in DOMAIN lastProc'.events :
                   lastProc'.events[i].op = "send_raw_transaction"]_vars

\* C25 witness: the monitor has requested an auto-sell while the processor has
\* submitted a buy and a sell transaction
C25_Witness ==
    /\ Evaluated /\ AutoSells # {}
    /\ MonitorOnlyReads(lastEval)
    /\ buy_txs[1] >= 1 /\ sell_txs[1] >= 1

--------------------------------------------------------------------------------
\* Properties of the pauses of the two loops

\* seconds between two cycles of the monitor
POSITION_CHECK_INTERVAL == 5

\* await asyncio.sleep(3): seconds between two cycles of the processor
ProcessorInterval == 3

\* seconds the processor and the monitor pause after an exception of the cycle
ProcessorBackoffInterval == 10

MonitorBackoffInterval == 30

\* C36: the monitor pauses for a shorter time between two cycles than the
\* processor does, and each loop pauses longer after an exception of the cycle
\* than between two cycles.
C36_Intervals ==
    (mon_pc = "loop" \/ proc_pc = "buy_loop") =>
        /\ POSITION_CHECK_INTERVAL < ProcessorInterval
        /\ ProcessorBackoffInterval > ProcessorInterval
        /\ MonitorBackoffInterval > POSITION_CHECK_INTERVAL

\* C36, as far as the code goes: each loop backs off longer than it sleeps, and
\* the monitor's interval is the longer of the two normal intervals.
BackoffLongerThanInterval ==
    (mon_pc = "backoff" \/ proc_pc = "backoff") =>
        /\ ProcessorBackoffInterval > ProcessorInterval
        /\ MonitorBackoffInterval > POSITION_CHECK_INTERVAL
        /\ POSITION_CHECK_INTERVAL > ProcessorInterval

--------------------------------------------------------------------------------
\* Properties of the Swap Executor: a transaction that was broadcast

\* C37: execute_swap returns success=false only if no transaction was broadcast:
\* once send_raw_transaction has returned a signature the result is success=true
\* with that signature, whether the confirmation then succeeds, times out or
\* raises another error.
C37_BroadcastIsSuccess ==
    (Swapping /\ lastCall.result.submitted) =>
        /\ lastCall.result.success
        /\ lastCall.result.signature = Str

\* C37, as far as the code goes: a broadcast transaction is reported as a
\* failure exactly when confirm_transaction raised something other than a timeout.
BroadcastFailsOnlyOnConfirmError ==
    (Swapping /\ lastCall.result.submitted) =>
        /\ lastCall.result.success <=> lastCall.swap \in {"confirmed", "confirm_timeout"}
        /\ ~lastCall.result.success <=> lastCall.swap = "confirm_error"
        /\ lastCall.result.success => lastCall.result.signature = Str

\* C37 (the failing case): a buy or a sell whose transaction was broadcast is
\* handed back as a failure without its signature.
BroadcastReportedFailed ==
    /\ lastCall.kind \in {"buy", "sell"}
    /\ lastCall.result.submitted
    /\ ~lastCall.result.success
    /\ lastCall.result.signature = Null

--------------------------------------------------------------------------------
\* Properties of the Position Monitor: the observed price

\* C40: the monitor requests an auto-sell only on a strictly positive observed
\* price; an answer of the price index without a usable price (an entry with
\* the price missing or zero) counts as no price and never leads to a pnl of
\* -100% and a stop-loss auto-sell.
C40_PositivePriceOnly ==
    /\ (Evaluated /\ AutoSells # {}) => RowCur > 0
    /\ (lastCall.kind = "get_token_price_sol" /\ IsNum(lastCall.result)) =>
          lastCall.result.v > 0

\* C40 (the failing case in the monitor): the price index answered with the
\* price 0, pnl_pct is -100% and the stop loss is requested.
StopLossOnZeroPrice ==
    /\ Evaluated
    /\ lastEval.answers.price = Num(0)
    /\ RowCur = 0 /\ RowEntry > 0
    /\ lastEval.pnl = Frac(-100 * RowEntry, RowEntry)
    /\ IssuedOnly("stop_loss", 100)

\* C40 (the failing case in the price lookup): an entry without a price is
\* handed to the monitor as the price 0.
MissingPriceIsZero ==
    /\ lastCall.kind = "get_token_price_sol"
    /\ lastCall.response = PriceResponse("entry", Absent)
    /\ lastCall.result = Num(0)

--------------------------------------------------------------------------------
\* Properties of the shared RPC handle

\* the endpoint the handle left by the last connect_rpc refers to answered the
\* liveness call
HandleAlive ==
    \E i \in DOMAIN RPC_ENDPOINTS :
        lastCall.result.rpc = RPC_ENDPOINTS[i] /\ lastCall.alive[i]

\* C31: the shared RPC handle is unset or refers to an endpoint that has passed
\* the liveness check: it is installed only after the check, and after a
\* connect_rpc that failed on every endpoint it is unset, so that the next
\* operation connects again.
C31_HandleValidated ==
    lastCall.kind = "connect_rpc" =>
        /\ lastCall.result.raised => rpc = "none"
        /\ ~lastCall.result.raised => (rpc = "set" /\ HandleAlive)

\* C31, as far as the code goes: a connect_rpc that returns leaves the handle
\* on the endpoint that answered.
HandleValidatedWhenConnected ==
    (lastCall.kind = "connect_rpc" /\ ~lastCall.result.raised) =>
        (rpc = "set" /\ HandleAlive)

\* C31 (the failing case): connect_rpc raised and the handle is left on the
\* last endpoint, which failed its liveness call.
StaleHandleAfterFailure ==
    /\ lastCall.kind = "connect_rpc"
    /\ lastCall.result.raised
    /\ rpc = "set"
    /\ lastCall.result.rpc = RPC_ENDPOINTS[Len(RPC_ENDPOINTS)]
    /\ ~HandleAlive

--------------------------------------------------------------------------------
\* Properties of the token balance read

\* the read of the token account could not be made: the RPC connection could
\* not be set up, or the request failed
ReadFailed ==
    \/ lastCall.rpc = "none" /\ ~lastCall.connected
    \/ lastCall.read.t = "error"

\* C32: get_token_balance returns null when the token account cannot be read,
\* 0 when the wallet has no account for the mint, and the raw amount of the
\* account otherwise; null and 0 are never taken for one another.
C32_ZeroNullAmount ==
    lastCall.kind = "get_token_balance" =>
        lastCall.result = IF ReadFailed THEN Null
                          ELSE IF lastCall.read.t = "no_account" THEN Num(0)
                          ELSE Num(lastCall.read.amount)

\* C32, as far as the code goes: once there is a handle, or the connection is
\* set up, the three answers are as stated.
ZeroNullAmountWhenConnected ==
    (lastCall.kind = "get_token_balance" /\ (lastCall.rpc = "set" \/ lastCall.connected)) =>
        /\ lastCall.read.t = "error" <=> lastCall.result = Null
        /\ lastCall.read.t = "no_account" => lastCall.result = Num(0)
        /\ lastCall.read.t = "account" => lastCall.result = Num(lastCall.read.amount)

\* C32 (the failing case): there is no handle, no endpoint answers, and the
\* call raises instead of returning null.
BalanceReadRaises ==
    /\ lastCall.kind = "get_token_balance"
    /\ lastCall.rpc = "none" /\ ~lastCall.connected
    /\ lastCall.result.t = "raise"

--------------------------------------------------------------------------------
\* Properties of the Position Monitor: repeated requests

\* the evaluation made in this step requests an auto-sell
RequestsNow ==
    /\ HandlesPosition
    /\ lastEval'.outcome = "evaluated"
    /\ lastEval'.action_needed # NoAction

\* C38: for a trade and a trigger the monitor sends at most one auto-sell
\* request while the backend status of the trade is the same: a trigger that
\* stays true over several cycles, before the sell has been executed and the
\* status has changed, is not requested again.
C38_OneRequestPerStatus ==
    [][RequestsNow =>
          <<lastEval'.action_needed, trades[lastEval'.pos.id].status>>
              \notin requested[lastEval'.pos.id]]_vars

\* C38 (the failing case): the 50% take profit was requested for a trade whose
\* status is still 'bought' and is requested again in a later cycle.
Tp1RequestedAgain ==
    /\ Evaluated
    /\ IssuedOnly("take_profit_1", 50)
    /\ trades[lastEval.pos.id].status = "bought"
    /\ <<"take_profit_1", "bought">> \in requested[lastEval.pos.id]
    /\ mon_pc = "loop"

--------------------------------------------------------------------------------
\* Properties of run() and stop()

\* the processor is inside execute_swap, past the swap-build request
InsideSwap == proc_pc \in {"built", "sent"}

\* C39: at any time at most one swap is in flight for the wallet, between its
\* swap-build request and the end of its confirmation: it is the one the
\* processor is inside, and the monitor, whatever it is doing, starts none.
C39_OneSwapInFlight ==
    /\ Cardinality(in_flight) <= 1
    /\ in_flight # {} => InsideSwap /\ in_flight = {<<lastProc.kind, lastProc.id>>}
    /\ \A i \in DOMAIN lastEval.events : lastEval.events[i].op \notin SwapOps

\* C39 (witness): the monitor has evaluated a position while the sell of the
\* processor is in flight, after the buy ahead of it went through.
C39_Witness ==
    /\ in_flight = {<<"sell", 1>>}
    /\ buys[1].status = "bought"
    /\ mon_pc = "loop"
    /\ lastEval.outcome = "evaluated"

\* C34: a swap that stop() finds in flight in the processor, its quote fetched
\* or its build requested, completes: stop() does not make it fail, and it is
\* not cut off between build, submission and report.
C34_InFlightCompletes ==
    (lastProc.stopped /\ lastProc.outcome = "reported") => lastProc.error # "closed"

\* C34, as far as the code goes: a swap fails on a closed client only after
\* stop() has been called, and its outcome is still reported to the backend.
ClosedOnlyAfterStop ==
    lastProc.error = "closed" =>
        /\ ~running
        /\ lastProc.outcome = "reported"
        /\ lastProc.calls \in {<<"update_trade_failed">>, <<"update_sell_failed">>}

\* C34 (the failing case): stop() was called after the transaction of a buy
\* was sent, and the buy is reported as failed because the rpc client is closed.
BroadcastCutOffByStop ==
    /\ lastProc.stopped
    /\ lastProc.kind = "buy"
    /\ lastProc.submitted
    /\ lastProc.error = "closed"
    /\ lastProc.calls = <<"update_trade_failed">>

\* a loop starts a cycle: it fetches pending trades or open positions
StartsCycle ==
    \/ mon_pc = "fetch" /\ mon_pc' = "loop"
    \/ proc_pc = "trades" /\ proc_pc' = "buy_loop"

BothExited == mon_pc = "done" /\ proc_pc = "done"

\* C33: once stop() has cleared the running flag no cycle is started any more,
\* each loop ends the cycle it is in, and eventually both loops have exited
\* for good.
C33_StopTerminates ==
    /\ [][~running => ~StartsCycle]_vars
    /\ [][mon_pc = "done" => mon_pc' = "done"]_vars
    /\ [][proc_pc = "done" => proc_pc' = "done"]_vars
    /\ (~running) ~> BothExited

\* C33 (witness): stop() is over and both loops have exited, the processor
\* after the swap that stop() found in flight.
C33_Witness ==
    /\ ~running
    /\ http = "closed"
    /\ BothExited
    /\ \E i \in DOMAIN buys : buys[i].status # "pending_sigma"

\* C35: while the running flag is set a loop-level exception ends neither
\* loop: the failing loop leaves its backoff for the start of a new cycle, the
\* other loop goes on, and each loop starts cycles again and again.
C35_LoopsKeepCycling ==
    /\ [][mon_pc = "backoff" => mon_pc' \in {"backoff", "fetch"}]_vars
    /\ [][proc_pc = "backoff" => proc_pc' \in {"backoff", "trades"}]_vars
    /\ \/ <>(~running)
       \/ /\ []<>(<<MonitorFetch>>_vars)
          /\ []<>(<<ProcFetchTrades>>_vars)

\* C35 (witness): the processor is in its backoff after a loop-level exception
\* while the monitor, in a cycle of its own, has evaluated a position.
C35_Witness ==
    /\ running
    /\ proc_pc = "backoff"
    /\ lastProc.outcome = "raised"
    /\ mon_pc = "loop"
    /\ lastEval.outcome = "evaluated"

====
